---- MODULE Spec2Model ----
(***************************************************************************)
(* RecipeUP: the recipe-aggregation and list-consolidation engine.         *)
(*                                                                         *)
(*  - External Content Gateway  (SpoonacularService, lib/spoonacular)      *)
(*  - Favorites relation        (recipe_favorites and its three routes)    *)
(*  - Grocery List Generator    (POST /api/grocery-lists)                  *)
(*  - Source-Unified Search     (GET /api/recipes/search)                  *)
(*  - Collection Assembler      (GET /api/recipes/my-collection)           *)
(*                                                                         *)
(* Every component has its own specification (SpecGateway, SpecFav, ...):  *)
(* the variables of the other components keep their initial value.         *)
(***************************************************************************)
EXTENDS Integers, Sequences, FiniteSets, TLC

VARIABLES
    \* ---- External Content Gateway (one SpoonacularService per process)
    requestCount,     \* SpoonacularService.requestCount
    lastResetTime,    \* SpoonacularService.lastResetTime (ms)
    now,              \* Date.now() (ms since the service was constructed)
    call,             \* per caller: the makeRequest it is in, or its last outcome
    succeeded,        \* history: calls answered 2xx since lastResetTime was set
    \* ---- Persistence: recipes and recipe_favorites
    recipes,          \* table recipes: id -> row
    favorites,        \* table recipe_favorites: <<user, recipe id>> -> number of rows
    favReq,           \* per handler slot: the favorite request it is serving
    run,              \* history: per pair, answers of its sequential toggles
    \* ---- Grocery List Generator
    catName,          \* categorizeIngredient: its argument
    catResult,        \* categorizeIngredient: its result ("none" before the call)
    members,          \* table family_group_members: <<group, user>>
    mealPlans,        \* table meal_plans: id -> row
    groceryLists,     \* table grocery_lists: the rows, in insertion order
    grocResp,         \* POST /api/grocery-lists: the last answer
    grocLoaded,       \* history: the recipes the last POST loaded, in the store's order
    \* ---- Source-Unified Search and Collection Assembler
    search,           \* GET /api/recipes/search: the request being served, its answer
    coll,             \* GET /api/recipes/my-collection: the request being served, its answer
    \* ---- Handlers that update one row
    putReq,           \* PUT /api/grocery-lists/[id]: per handler slot, the request served
    recipeReq,        \* GET, PUT, DELETE /api/recipes/[id]: the request served, its answer
    planReq           \* POST /api/meal-plans, PUT /api/meal-plans/[id]: per handler slot

gatewayVars == <<requestCount, lastResetTime, now, call, succeeded>>
favVars == <<favorites, favReq, run>>
catVars == <<catName, catResult>>
grocVars == <<members, mealPlans, groceryLists, grocResp, grocLoaded>>
readVars == <<search, coll>>
writeVars == <<putReq, recipeReq, planReq>>

vars == <<requestCount, lastResetTime, now, call, succeeded,
          recipes, favorites, favReq, run, catName, catResult,
          members, mealPlans, groceryLists, grocResp, grocLoaded, search, coll,
          putReq, recipeReq, planReq>>

----------------------------------------------------------------------------
(***************************************************************************)
(* External Content Gateway                                                *)
(***************************************************************************)

\* private dailyLimit = 150; // Free tier
dailyLimit == 150

\* 24 * 60 * 60 * 1000 in checkRateLimit
DayMs == 24 * 60 * 60 * 1000

\* Bounds of the clock: whole days, and milliseconds past a whole day.
MaxDays == 1
MaxMs == 1

\* Concurrent request handlers of the process that call the Gateway.
Callers == {"h1", "h2"}

\* searchRecipes, getRecipeInformation, getRandomRecipes: all go through makeRequest
Endpoints == {"searchRecipes", "getRecipeInformation", "getRandomRecipes"}

\* What the provider (or the transport) answers to one fetch.
Answers == {"ok", "http429", "http404", "httpError", "transportError"}

NoCall == [st |-> "idle", kind |-> "none", reset |-> FALSE, alone |-> TRUE]

\* checkRateLimit with the comparison of the counter off by one
checkRateLimit_offByOne(cnt, last, t) ==
    LET elapsed == (t - last) > DayMs
        c1 == IF elapsed THEN 0 ELSE cnt
    IN  [requestCount |-> c1,
         lastResetTime |-> IF elapsed THEN t ELSE last,
         throws |-> c1 > dailyLimit]

\* checkRateLimit without the daily reset
checkRateLimit_noReset(cnt, last, t) ==
    [requestCount |-> cnt, lastResetTime |-> last, throws |-> cnt >= dailyLimit]

\* SpoonacularService.checkRateLimit: the fields after the call, and whether
\* it throws 'Daily rate limit exceeded'
checkRateLimit(cnt, last, t) ==
    LET timeSinceReset == t - last
        elapsed == timeSinceReset > DayMs
        c1 == IF elapsed THEN 0 ELSE cnt
    IN  [requestCount |-> c1,
         lastResetTime |-> IF elapsed THEN t ELSE last,
         throws |-> c1 >= dailyLimit]

\* makeRequest up to its await fetch(...): the budget check, then the request
\* is on the wire; a throw of checkRateLimit leaves makeRequest before fetch.
GwBegin(c, kind) ==
    /\ call[c].st # "fetching"
    /\ LET r == checkRateLimit(requestCount, lastResetTime, now)
           moved == r.lastResetTime # lastResetTime
       IN  /\ requestCount' = r.requestCount
           /\ lastResetTime' = r.lastResetTime
           /\ succeeded' = IF moved THEN 0 ELSE succeeded
           /\ call' = [d \in Callers |->
                 IF d = c
                 THEN IF r.throws
                      THEN [st |-> "rateLimited", kind |-> kind,
                            reset |-> FALSE, alone |-> TRUE]
                      ELSE [st |-> "fetching", kind |-> kind,
                            reset |-> moved /\ succeeded >= dailyLimit,
                            alone |-> TRUE]
                 ELSE IF call[d].st = "fetching" /\ moved
                      THEN [call[d] EXCEPT !.alone = FALSE]
                      ELSE call[d]]
    /\ UNCHANGED now

\* makeRequest after the await, counting every answer
GwRespond_countsAll(c, answer) ==
    /\ call[c].st = "fetching"
    /\ requestCount' = requestCount + 1
    /\ succeeded' = IF answer = "ok" THEN succeeded + 1 ELSE succeeded
    /\ call' = [d \in Callers |->
          IF d = c
          THEN [st |-> answer, kind |-> "none", reset |-> FALSE, alone |-> TRUE]
          ELSE IF call[d].st = "fetching" /\ answer = "ok"
               THEN [call[d] EXCEPT !.alone = FALSE]
               ELSE call[d]]
    /\ UNCHANGED <<lastResetTime, now>>

\* makeRequest after the await: 429 and non-2xx throw, a transport error
\* rejects the fetch, a 2xx answer counts (this.requestCount++).
GwRespond(c, answer) ==
    /\ call[c].st = "fetching"
    /\ requestCount' = IF answer = "ok" THEN requestCount + 1 ELSE requestCount
    /\ succeeded' = IF answer = "ok" THEN succeeded + 1 ELSE succeeded
    /\ call' = [d \in Callers |->
          IF d = c
          THEN [st |-> answer, kind |-> "none", reset |-> FALSE, alone |-> TRUE]
          ELSE IF call[d].st = "fetching" /\ answer = "ok"
               THEN [call[d] EXCEPT !.alone = FALSE]
               ELSE call[d]]
    /\ UNCHANGED <<lastResetTime, now>>

\* Date.now() moves on: by one millisecond or by one day.
Tick(d) ==
    /\ now + d <= MaxDays * DayMs + MaxMs
    /\ (now + d) % DayMs <= MaxMs
    /\ now' = now + d
    /\ UNCHANGED <<requestCount, lastResetTime, call, succeeded>>

GatewayInit ==
    /\ requestCount = 0
    /\ lastResetTime = 0
    /\ now = 0
    /\ call = [c \in Callers |-> NoCall]
    /\ succeeded = 0

\* the other components are at rest in SpecGateway
GatewayFrame == UNCHANGED <<recipes, favVars, catVars, grocVars, readVars, writeVars>>

Call == \E c \in Callers, kind \in Endpoints : GwBegin(c, kind) /\ GatewayFrame

Respond == \E c \in Callers, answer \in Answers : GwRespond(c, answer) /\ GatewayFrame

Clock == \E d \in {1, DayMs} : Tick(d) /\ GatewayFrame

GatewayNext ==
    \/ Call
    \/ Respond
    \/ Clock

\* the Gateway of a process that makes no call
GatewayIdle == GatewayInit

----------------------------------------------------------------------------
(***************************************************************************)
(* Persistence: recipes and the favorites relation                         *)
(***************************************************************************)

Users == {"A", "B"}

\* Rows of table recipes in the favorites specification.
FavRecipes ==
    [r \in {"r1", "r2"} |->
        IF r = "r1"
        THEN [userId |-> "A", visibility |-> "private", status |-> "published"]
        ELSE [userId |-> "B", visibility |-> "public", status |-> "published"]]

\* Recipe ids of the requests: a local recipe, an external recipe under the
\* id unified search gives it.
FavIds == {"r1", "spoon_7"}

Pairs == Users \X FavIds

FavSlots == {"q1", "q2"}

\* recipeId.startsWith('spoon_')
isSpoonacularRecipe(r) == Len(r) >= 6 /\ SubSeq(r, 1, 6) = "spoon_"

\* select ... from recipe_favorites where recipeId = r and userId = u limit 1
existingFavorite(fav, u, r) == fav[<<u, r>>] > 0

\* a store without unique_user_recipe_favorite
UniqueViolation_none(fav, u, r) == FALSE

\* unique('unique_user_recipe_favorite').on(userId, recipeId): the insert of
\* a second row for the pair is refused by the store
UniqueViolation(fav, u, r) == fav[<<u, r>>] >= 1

\* insert into recipe_favorites values (r, u, ...)
InsertFavorite(fav, u, r) == [fav EXCEPT ![<<u, r>>] = @ + 1]

\* a delete that forgets the user in its where clause
DeleteFavorite_anyUser(fav, u, r) ==
    [p \in DOMAIN fav |-> IF p[2] = r THEN 0 ELSE fav[p]]

\* delete from recipe_favorites where recipeId = r and userId = u
DeleteFavorite(fav, u, r) == [fav EXCEPT ![<<u, r>>] = 0]

IdleReq(resp) ==
    [pc |-> "idle", op |-> "none", user |-> "-", recipe |-> "-",
     existing |-> FALSE, resp |-> resp]

\* another handler is between the first and the last step of a request on (u, r)
OthersInFlight(s, u, r) ==
    \E o \in FavSlots \ {s} :
        favReq[o].pc # "idle" /\ favReq[o].user = u /\ favReq[o].recipe = r

\* the run of a pair that other requests have touched
Void == <<"void">>

\* history of the toggles of one pair: a toggle that starts alone on a pair
\* without a row opens a run; a toggle that starts alone after the run's
\* first answer continues it; any other request on the pair voids the run.
RunAtStart(s, op, u, r) ==
    IF OthersInFlight(s, u, r) \/ op # "toggle" THEN Void
    ELSE IF favorites[<<u, r>>] = 0 THEN <<>>
    ELSE IF run[<<u, r>>] = <<"favorited">> THEN run[<<u, r>>]
    ELSE Void

RunAtEnd(u, r, resp) ==
    IF run[<<u, r>>] = Void THEN Void ELSE Append(run[<<u, r>>], resp)

\* toggle/route.ts POST, first await on the store: 'Check if already favorited'
ToggleCheck(s, u, r) ==
    /\ favReq[s].pc = "idle"
    /\ favReq' = [favReq EXCEPT ![s] =
          [pc |-> "checked", op |-> "toggle", user |-> u, recipe |-> r,
           existing |-> existingFavorite(favorites, u, r), resp |-> "none"]]
    /\ run' = [run EXCEPT ![<<u, r>>] = RunAtStart(s, "toggle", u, r)]
    /\ UNCHANGED favorites

\* toggle/route.ts POST, second await: delete the row, or insert one; a store
\* error is caught by the outer catch and answered 500
ToggleWrite(s) ==
    LET q == favReq[s]
        resp == IF q.existing THEN "unfavorited"
                ELSE IF UniqueViolation(favorites, q.user, q.recipe) THEN "error500"
                ELSE "favorited"
    IN  /\ q.pc = "checked" /\ q.op = "toggle"
        /\ favorites' = IF q.existing THEN DeleteFavorite(favorites, q.user, q.recipe)
                        ELSE IF resp = "favorited"
                             THEN InsertFavorite(favorites, q.user, q.recipe)
                             ELSE favorites
        /\ favReq' = [favReq EXCEPT ![s] = IdleReq(resp)]
        /\ run' = [run EXCEPT ![<<q.user, q.recipe>>] = RunAtEnd(q.user, q.recipe, resp)]

\* favorite/route.ts POST: the recipe must exist and be accessible unless the
\* id is a Spoonacular one
AddStart(s, u, r) ==
    LET known == r \in DOMAIN recipes
        hidden == known /\ recipes[r].visibility = "private" /\ recipes[r].userId # u
        refused == ~isSpoonacularRecipe(r) /\ (~known \/ hidden)
    IN  /\ favReq[s].pc = "idle"
        /\ favReq' = [favReq EXCEPT ![s] =
              IF refused THEN IdleReq("notFound404")
              ELSE [pc |-> "recipeOk", op |-> "add", user |-> u, recipe |-> r,
                    existing |-> FALSE, resp |-> "none"]]
        /\ run' = [run EXCEPT ![<<u, r>>] = Void]
        /\ UNCHANGED favorites

\* favorite/route.ts POST: 'Check if already favorited' answers 409
AddCheck(s) ==
    LET q == favReq[s]
    IN  /\ q.pc = "recipeOk" /\ q.op = "add"
        /\ favReq' = [favReq EXCEPT ![s] =
              IF existingFavorite(favorites, q.user, q.recipe)
              THEN IdleReq("conflict409")
              ELSE [q EXCEPT !.pc = "checked"]]
        /\ UNCHANGED <<favorites, run>>

\* favorite/route.ts POST: the insert; a store error is answered 500
AddInsert(s) ==
    LET q == favReq[s]
        refused == UniqueViolation(favorites, q.user, q.recipe)
    IN  /\ q.pc = "checked" /\ q.op = "add"
        /\ favorites' = IF refused THEN favorites
                        ELSE InsertFavorite(favorites, q.user, q.recipe)
        /\ favReq' = [favReq EXCEPT ![s] =
              IdleReq(IF refused THEN "error500" ELSE "added")]
        /\ UNCHANGED run

\* favorite/route.ts DELETE: 'Check if favorited' answers 404
RemoveCheck(s, u, r) ==
    /\ favReq[s].pc = "idle"
    /\ favReq' = [favReq EXCEPT ![s] =
          IF existingFavorite(favorites, u, r)
          THEN [pc |-> "checked", op |-> "remove", user |-> u, recipe |-> r,
                existing |-> TRUE, resp |-> "none"]
          ELSE IdleReq("notFound404")]
    /\ run' = [run EXCEPT ![<<u, r>>] = Void]
    /\ UNCHANGED favorites

\* favorite/route.ts DELETE: the delete
RemoveDelete(s) ==
    LET q == favReq[s]
    IN  /\ q.pc = "checked" /\ q.op = "remove"
        /\ favorites' = DeleteFavorite(favorites, q.user, q.recipe)
        /\ favReq' = [favReq EXCEPT ![s] = IdleReq("removed")]
        /\ UNCHANGED run

FavIdle ==
    /\ favorites = [p \in Pairs |-> 0]
    /\ favReq = [s \in FavSlots |-> IdleReq("none")]
    /\ run = [p \in Pairs |-> Void]

FavInit ==
    /\ recipes = FavRecipes
    /\ FavIdle

\* the other components are at rest in SpecFav
FavFrame == UNCHANGED <<recipes, gatewayVars, catVars, grocVars, readVars, writeVars>>

ToggleBegin ==
    \E s \in FavSlots, u \in Users, r \in FavIds : ToggleCheck(s, u, r) /\ FavFrame
ToggleEnd == \E s \in FavSlots : ToggleWrite(s) /\ FavFrame
AddBegin ==
    \E s \in FavSlots, u \in Users, r \in FavIds : AddStart(s, u, r) /\ FavFrame
AddMiddle == \E s \in FavSlots : AddCheck(s) /\ FavFrame
AddEnd == \E s \in FavSlots : AddInsert(s) /\ FavFrame
RemoveBegin ==
    \E s \in FavSlots, u \in Users, r \in FavIds : RemoveCheck(s, u, r) /\ FavFrame
RemoveEnd == \E s \in FavSlots : RemoveDelete(s) /\ FavFrame

FavNext ==
    \/ ToggleBegin
    \/ ToggleEnd
    \/ AddBegin
    \/ AddMiddle
    \/ AddEnd
    \/ RemoveBegin
    \/ RemoveEnd

----------------------------------------------------------------------------
(***************************************************************************)
(* Strings: what the handlers use of String.prototype                      *)
(***************************************************************************)

Upper == <<"A", "B", "C", "D", "E", "F", "G", "H", "I", "J", "K", "L", "M",
           "N", "O", "P", "Q", "R", "S", "T", "U", "V", "W", "X", "Y", "Z">>
Lower == <<"a", "b", "c", "d", "e", "f", "g", "h", "i", "j", "k", "l", "m",
           "n", "o", "p", "q", "r", "s", "t", "u", "v", "w", "x", "y", "z">>

\* one character of toLowerCase()
LowerChar(c) ==
    IF \E i \in 1..Len(Upper) : Upper[i] = c
    THEN Lower[CHOOSE i \in 1..Len(Upper) : Upper[i] = c]
    ELSE c

RECURSIVE toLowerCase(_)
\* String.prototype.toLowerCase
toLowerCase(str) ==
    IF Len(str) = 0 THEN ""
    ELSE LowerChar(SubSeq(str, 1, 1)) \o toLowerCase(SubSeq(str, 2, Len(str)))

\* String.prototype.includes
includes(str, sub) ==
    \E i \in 1..(Len(str) - Len(sub) + 1) : SubSeq(str, i, i + Len(sub) - 1) = sub

RECURSIVE trim(_)
\* String.prototype.trim
trim(str) ==
    IF Len(str) = 0 THEN ""
    ELSE IF SubSeq(str, 1, 1) = " " THEN trim(SubSeq(str, 2, Len(str)))
    ELSE IF SubSeq(str, Len(str), Len(str)) = " " THEN trim(SubSeq(str, 1, Len(str) - 1))
    ELSE str

Digits == <<"0", "1", "2", "3", "4", "5", "6", "7", "8", "9">>

\* /^\d+$/.test(str)
isNumericId(str) ==
    /\ Len(str) >= 1
    /\ \A i \in 1..Len(str) : \E d \in 1..Len(Digits) : Digits[d] = SubSeq(str, i, i)

RECURSIVE parseInt(_)
\* parseInt of a string of decimal digits
parseInt(str) ==
    IF Len(str) = 0 THEN 0
    ELSE parseInt(SubSeq(str, 1, Len(str) - 1)) * 10
            + (CHOOSE d \in 0..9 : Digits[d + 1] = SubSeq(str, Len(str), Len(str)))

RECURSIVE NumToString(_)
\* Number.prototype.toString and `${n}` of a natural number
NumToString(n) ==
    IF n < 10 THEN Digits[n + 1]
    ELSE NumToString(n \div 10) \o Digits[(n % 10) + 1]

\* Math.min
Min(a, b) == IF a <= b THEN a ELSE b

\* Array.prototype.slice(from, to) with 0 <= from
slice(arr, from, to) ==
    IF from >= Min(to, Len(arr)) THEN <<>> ELSE SubSeq(arr, from + 1, Min(to, Len(arr)))

----------------------------------------------------------------------------
(***************************************************************************)
(* Grocery List Generator: the categorizer                                 *)
(***************************************************************************)

\* the keyword groups of categorizeIngredient, in the order of its if chain
KeywordGroups ==
    << [category |-> "dairy", words |-> {"milk", "cheese", "yogurt", "butter"}],
       [category |-> "meat", words |-> {"chicken", "beef", "pork", "fish", "meat"}],
       [category |-> "produce", words |-> {"apple", "banana", "tomato", "onion", "lettuce"}],
       [category |-> "bakery", words |-> {"bread", "rolls", "bagel"}],
       [category |-> "frozen", words |-> {"frozen"}],
       [category |-> "beverages", words |-> {"juice", "soda", "water", "beer", "wine"}] >>

\* the categorizer without name.toLowerCase()
categorizeIngredient_caseSensitive(name) ==
    IF \E w \in {"milk", "cheese", "yogurt", "butter"} : includes(name, w)
    THEN "dairy"
    ELSE IF \E w \in {"chicken", "beef", "pork", "fish", "meat"} : includes(name, w)
    THEN "meat"
    ELSE IF \E w \in {"apple", "banana", "tomato", "onion", "lettuce"} : includes(name, w)
    THEN "produce"
    ELSE IF \E w \in {"bread", "rolls", "bagel"} : includes(name, w)
    THEN "bakery"
    ELSE IF includes(name, "frozen")
    THEN "frozen"
    ELSE IF \E w \in {"juice", "soda", "water", "beer", "wine"} : includes(name, w)
    THEN "beverages"
    ELSE "pantry"

\* function categorizeIngredient(name: string): string
categorizeIngredient(name) ==
    LET lowerName == toLowerCase(name)
    IN  IF \E w \in {"milk", "cheese", "yogurt", "butter"} : includes(lowerName, w)
        THEN "dairy"
        ELSE IF \E w \in {"chicken", "beef", "pork", "fish", "meat"} : includes(lowerName, w)
        THEN "meat"
        ELSE IF \E w \in {"apple", "banana", "tomato", "onion", "lettuce"} : includes(lowerName, w)
        THEN "produce"
        ELSE IF \E w \in {"bread", "rolls", "bagel"} : includes(lowerName, w)
        THEN "bakery"
        ELSE IF includes(lowerName, "frozen")
        THEN "frozen"
        ELSE IF \E w \in {"juice", "soda", "water", "beer", "wine"} : includes(lowerName, w)
        THEN "beverages"
        ELSE "pantry"

\* Ingredient names given to the categorizer: one word, or two words.
CatWords == {"whole", "milk", "chicken", "breast", "frozen", "peas", "paper",
             "towels", "Butter", "apple", "juice", "Bread", "FISH", "water"}

CatNames == CatWords \cup {a \o " " \o b : a \in CatWords, b \in CatWords}

\* a call of categorizeIngredient
Categorize ==
    /\ catResult = "none"
    /\ catResult' = categorizeIngredient(catName)
    /\ UNCHANGED catName

\* the next call, with another name
NextName(n) ==
    /\ catResult # "none"
    /\ catName' = n
    /\ catResult' = "none"

CatIdle ==
    /\ catName = "whole milk"
    /\ catResult = "none"

CatInit ==
    /\ catName \in CatNames
    /\ catResult = "none"

\* the other components are at rest in SpecCat
CatFrame == UNCHANGED <<recipes, gatewayVars, favVars, grocVars, readVars, writeVars>>

CatCall == Categorize /\ CatFrame

CatAgain == \E n \in CatNames : NextName(n) /\ CatFrame

CatNext ==
    \/ CatCall
    \/ CatAgain

----------------------------------------------------------------------------
(***************************************************************************)
(* Grocery List Generator: POST /api/grocery-lists                         *)
(***************************************************************************)

\* Bound: ingredients per recipe.
MaxIngredients == 2

GrocRecipeIds == {"R1", "R2"}

\* Ingredients a stored recipe may list (recipes.ingredients): the first
\* recipe writes "Onion" or "onion" and uses flour, the second writes
\* "onion " or "onion" and uses eggs. Category "" is an ingredient stored
\* without a category.
IngredientPool(r) ==
    IF r = "R1"
    THEN { [name |-> "Onion", amount |-> "1", unit |-> "", category |-> "", notes |-> ""],
           [name |-> "onion", amount |-> "1", unit |-> "", category |-> "", notes |-> ""],
           [name |-> "flour", amount |-> "2", unit |-> "cups", category |-> "", notes |-> ""] }
    ELSE { [name |-> "onion ", amount |-> "2", unit |-> "lb", category |-> "produce",
            notes |-> "diced"],
           [name |-> "onion", amount |-> "2", unit |-> "", category |-> "", notes |-> ""],
           [name |-> "eggs", amount |-> "3", unit |-> "", category |-> "dairy", notes |-> ""] }

IngredientLists(r) == UNION {[1..n -> IngredientPool(r)] : n \in 1..MaxIngredients}

\* (day, meal-type) slots of meal_plans.meals, in the order of Object.values
Slots == {<<"monday", "dinner">>, <<"tuesday", "dinner">>}

\* a slot without recipeId
NoRecipe == ""

\* what a slot may reference: nothing, a stored recipe, an external recipe
SlotValues == {NoRecipe, "R1", "R2", "spoon_9"}

\* explicit ingredients of the request body (createGroceryListSchema)
ExplicitChoices ==
    { <<>>,
      <<[name |-> "salt", amount |-> "", unit |-> "", category |-> "pantry",
         checked |-> FALSE, recipeSources |-> <<>>, notes |-> ""]>> }

\* the orders in which the store may return the rows of a set of ids
Orders(S) ==
    {o \in [1..Cardinality(S) -> S] : \A i, j \in 1..Cardinality(S) : i # j => o[i] # o[j]}

\* POST /api/grocery-lists before its answer; an answer holds the status, the
\* error message, and the familyGroupId and mealPlanId of the request
NoGrocResp ==
    [status |-> 0, fromPlan |-> FALSE, error |-> "", familyGroupId |-> "", mealPlanId |-> ""]

\* a timestamp column without a value; a value t is <<t>>
NullDate == <<>>

\* const key = ingredient.name?.toLowerCase()
ingredientKey(name) == toLowerCase(name)

\* a consolidation that starts every source list empty
newItem_noSource(ing, rid) ==
    [name |-> ing.name, amount |-> ing.amount, unit |-> ing.unit,
     category |-> IF ing.category # "" THEN ing.category ELSE categorizeIngredient(ing.name),
     checked |-> FALSE, recipeSources |-> <<>>, notes |-> ing.notes]

\* ingredientMap.set(key, {...}): the item a first occurrence seeds
newItem(ing, rid) ==
    [name |-> ing.name, amount |-> ing.amount, unit |-> ing.unit,
     category |-> IF ing.category # "" THEN ing.category ELSE categorizeIngredient(ing.name),
     checked |-> FALSE, recipeSources |-> <<rid>>, notes |-> ing.notes]

\* a consolidation whose later occurrence also takes over the amount, unit and
\* notes of the ingredient it merges
addIngredient_overwrite(items, ing, rid) ==
    LET key == ingredientKey(ing.name)
        hit == {i \in 1..Len(items) : ingredientKey(items[i].name) = key}
    IN  IF key = "" THEN items
        ELSE IF hit # {}
        THEN [i \in 1..Len(items) |->
                IF i \in hit
                THEN [items[i] EXCEPT !.recipeSources = Append(@, rid),
                                      !.amount = ing.amount, !.unit = ing.unit,
                                      !.notes = ing.notes]
                ELSE items[i]]
        ELSE Append(items, newItem(ing, rid))

\* the body of recipeIngredients.forEach: items are the Map's values in
\* insertion order; the Map has a key exactly when an item was seeded with it
addIngredient(items, ing, rid) ==
    LET key == ingredientKey(ing.name)
        hit == {i \in 1..Len(items) : ingredientKey(items[i].name) = key}
    IN  IF key = "" THEN items
        ELSE IF hit # {}
        THEN [i \in 1..Len(items) |->
                IF i \in hit
                THEN [items[i] EXCEPT !.recipeSources = Append(@, rid)]
                ELSE items[i]]
        ELSE Append(items, newItem(ing, rid))

RECURSIVE addRecipe(_, _, _)
\* recipeIngredients.forEach(...) of one recipe
addRecipe(items, ings, rid) ==
    IF Len(ings) = 0 THEN items
    ELSE addRecipe(addIngredient(items, Head(ings), rid), Tail(ings), rid)

RECURSIVE consolidate(_, _, _)
\* recipeResults.forEach(...): Array.from(ingredientMap.values())
consolidate(items, loaded, table) ==
    IF Len(loaded) = 0 THEN items
    ELSE consolidate(addRecipe(items, table[Head(loaded)].ingredients, Head(loaded)),
                     Tail(loaded), table)

\* recipeIds: the recipe ids of the slots that carry one
planRecipeIds(meals) == {meals[sl] : sl \in Slots} \ {NoRecipe}

\* db.select(...).from(recipes).where(inArray(recipes.id, recipeIds)): the
\* rows of the plan's recipes that exist, in an order the store chooses; no
\* query when the list is not built from the plan
loadOrders(g, mp, explicit) ==
    IF /\ mp \in DOMAIN mealPlans
       /\ mealPlans[mp].familyGroupId = g
       /\ Len(explicit) = 0
    THEN Orders(planRecipeIds(mealPlans[mp].meals) \cap DOMAIN recipes)
    ELSE {<<>>}

\* POST /api/grocery-lists, the whole handler (one request per behaviour)
CreateGroceryList(u, g, mp, explicit, loaded) ==
    LET isMember == <<g, u>> \in members
        planOk == mp = "" \/ (mp \in DOMAIN mealPlans /\ mealPlans[mp].familyGroupId = g)
        fromPlan == mp # "" /\ Len(explicit) = 0
        finalIngredients ==
            IF fromPlan /\ Len(loaded) > 0
            THEN consolidate(<<>>, loaded, recipes)
            ELSE explicit
    IN  /\ grocResp.status = 0
        /\ loaded \in loadOrders(g, mp, explicit)
        /\ IF ~isMember
           THEN /\ grocResp' = [NoGrocResp EXCEPT
                                   !.status = 403, !.error = "Access denied to family group",
                                   !.familyGroupId = g, !.mealPlanId = mp]
                /\ UNCHANGED groceryLists
           ELSE IF ~planOk
           THEN /\ grocResp' = [NoGrocResp EXCEPT
                                   !.status = 400,
                                   !.error = "Invalid meal plan for this family group",
                                   !.familyGroupId = g, !.mealPlanId = mp]
                /\ UNCHANGED groceryLists
           ELSE /\ grocResp' = [NoGrocResp EXCEPT
                                   !.status = 201, !.fromPlan = fromPlan,
                                   !.familyGroupId = g, !.mealPlanId = mp]
                /\ groceryLists' = Append(groceryLists,
                      [familyGroupId |-> g, mealPlanId |-> mp, createdBy |-> u,
                       ingredients |-> finalIngredients, additionalItems |-> <<>>,
                       status |-> "active", completedAt |-> NullDate,
                       updatedAt |-> <<now>>])
        /\ grocLoaded' = loaded
        /\ UNCHANGED <<recipes, members, mealPlans>>

GrocIdle ==
    /\ members = {<<"g1", "A">>, <<"g2", "B">>}
    /\ mealPlans = [id \in {"mp1"} |->
          [familyGroupId |-> "g1", meals |-> [sl \in Slots |-> NoRecipe]]]
    /\ groceryLists = <<>>
    /\ grocResp = NoGrocResp
    /\ grocLoaded = <<>>

\* one meal plan of group g1 over the slots, and the recipes it may reference
GrocInit ==
    /\ members = {<<"g1", "A">>, <<"g2", "B">>}
    /\ \E meals \in [Slots -> SlotValues] :
          mealPlans = [id \in {"mp1"} |-> [familyGroupId |-> "g1", meals |-> meals]]
    /\ \E i1 \in IngredientLists("R1"), i2 \in IngredientLists("R2") :
          recipes = [r \in GrocRecipeIds |->
                       [userId |-> "A", visibility |-> "family", status |-> "published",
                        ingredients |-> IF r = "R1" THEN i1 ELSE i2]]
    /\ groceryLists = <<>>
    /\ grocResp = NoGrocResp
    /\ grocLoaded = <<>>

\* the other components are at rest in SpecGrocery
GrocFrame == UNCHANGED <<gatewayVars, favVars, catVars, readVars, writeVars>>

CreateList ==
    \E u \in Users, g \in {"g1", "g2"}, mp \in {"", "mp1", "mpX"},
       explicit \in ExplicitChoices :
        \E loaded \in loadOrders(g, mp, explicit) :
            CreateGroceryList(u, g, mp, explicit, loaded) /\ GrocFrame

GrocNext ==
    \/ CreateList

----------------------------------------------------------------------------
(***************************************************************************)
(* Source-Unified Search: GET /api/recipes/search                          *)
(***************************************************************************)

\* getCurrentUser() when the request carries no session
Anonymous == "nobody"

SearchCallers == Users \cup {Anonymous}

\* Math.min(6, params.limit): the local share of a mixed page
LocalShare == 6

\* Page sizes of the requests: below and above the local share.
SearchLimits == {1, LocalShare + 1}

\* Validated query parameters of the requests.
SearchParams ==
    [source : {"all", "user", "spoonacular"},
     query : {"", "ONION", "pasta"},
     includePrivate : BOOLEAN,
     limit : SearchLimits,
     offset : {0, 1}]

\* Rows of table recipes in the search specification: s1 is A's recipe, of
\* her family group g1; B is a member of g2 only.
SearchStores ==
    { [r \in {"s1", "s2", "s3"} |->
          CASE r = "s1" -> [userId |-> "A", familyGroupId |-> "g1", visibility |-> v1,
                            status |-> st1,
                            title |-> "Onion Soup", description |-> "", cuisine |-> "",
                            updatedAt |-> ts[1]]
            [] r = "s2" -> [userId |-> "B", familyGroupId |-> "g2", visibility |-> v2,
                            status |-> "published",
                            title |-> "Tart", description |-> "with onions", cuisine |-> "",
                            updatedAt |-> ts[2]]
            [] OTHER    -> [userId |-> "B", familyGroupId |-> "g2", visibility |-> "public",
                            status |-> "published",
                            title |-> "Pasta", description |-> "", cuisine |-> "Italian",
                            updatedAt |-> ts[3]]] :
        v1 \in {"private", "family", "public"}, st1 \in {"published", "draft"},
        v2 \in {"private", "public"},
        ts \in {<<-3, -2, -1>>, <<-1, -3, -2>>, <<-2, -1, -3>>} }

\* Rows of table recipes with more matching rows than the local share:
\* LocalShare + 1 public recipes of B.
SearchWideStore ==
    [r \in {"s" \o NumToString(k) : k \in 1..(LocalShare + 1)} |->
        [userId |-> "B", visibility |-> "public", status |-> "published",
         title |-> "Pasta " \o r, description |-> "", cuisine |-> "Italian",
         updatedAt |-> 0 - parseInt(SubSeq(r, 2, Len(r)))]]

\* What the provider's complexSearch returns for number = n: ids of its recipes.
ProviderResults(n) == {res \in {<<>>, <<7>>, <<7, 8>>} : Len(res) <= n}

\* ilike(column, `%${query}%`)
ilike(column, query) == includes(toLowerCase(column), toLowerCase(query))

\* the visibility condition without the caller: every row is visible
visibleTo_everyone(row, caller, withFamily) == TRUE

\* or(...visibilityConditions): public, the caller's own, and family rows
visibleTo(row, caller, withFamily) ==
    \/ row.visibility = "public"
    \/ /\ caller # Anonymous
       /\ \/ row.userId = caller
          \/ withFamily /\ row.visibility = "family"

\* and(...whereConditions) of both local queries
searchWhere(row, caller, withFamily, query) ==
    /\ visibleTo(row, caller, withFamily)
    /\ row.status = "published"
    /\ query # "" =>
          \/ ilike(row.title, query)
          \/ ilike(row.description, query)
          \/ ilike(row.cuisine, query)

RECURSIVE orderByUpdatedAtDesc(_, _)
\* .orderBy(desc(recipes.updatedAt)) over the rows ids of table
orderByUpdatedAtDesc(ids, table) ==
    IF ids = {} THEN <<>>
    ELSE LET first == CHOOSE r \in ids :
                         \A o \in ids : table[o].updatedAt <= table[r].updatedAt
         IN  <<first>> \o orderByUpdatedAtDesc(ids \ {first}, table)

\* EXISTS(SELECT 1 FROM recipe_favorites ...) and userFavorites.has(id)
hasFavorite(fav, u, id) == <<u, id>> \in DOMAIN fav /\ fav[<<u, id>>] > 0

\* one selected row of a local query
localItem(table, fav, caller, r) ==
    IF caller = Anonymous
    THEN [id |-> r, userId |-> table[r].userId, visibility |-> table[r].visibility,
          sourceType |-> "user"]
    ELSE [id |-> r, userId |-> table[r].userId, visibility |-> table[r].visibility,
          sourceType |-> "user", isFavorited |-> hasFavorite(fav, caller, r)]

\* the local query: where, order by updatedAt desc, limit, offset
localQuery(table, fav, caller, withFamily, query, limit, offset) ==
    LET ids == {r \in DOMAIN table : searchWhere(table[r], caller, withFamily, query)}
        ordered == orderByUpdatedAtDesc(ids, table)
        page == slice(ordered, offset, offset + limit)
    IN  [i \in 1..Len(page) |-> localItem(table, fav, caller, page[i])]

\* response.results.map(...) of searchSpoonacularRecipes
spoonacularItems(results, fav, caller) ==
    [i \in 1..Len(results) |->
        [id |-> "spoon_" \o NumToString(results[i]), userId |-> "null",
         visibility |-> "public", sourceType |-> "spoonacular",
         isFavorited |-> caller # Anonymous
                           /\ hasFavorite(fav, caller, NumToString(results[i]))]]

\* the choices j of the shuffle: one per i = n-1 .. 1, with 0 <= j <= i
ShuffleChoices(n) == {js \in [1..(n - 1) -> 0..(n - 1)] : \A i \in 1..(n - 1) : js[i] <= i}

RECURSIVE shuffle(_, _, _)
\* for (i = length - 1; i > 0; i--) swap allResults[i], allResults[j]
shuffle(arr, i, js) ==
    IF i < 1 THEN arr
    ELSE shuffle([arr EXCEPT ![i + 1] = arr[js[i] + 1], ![js[i] + 1] = arr[i + 1]],
                 i - 1, js)

NoResponse ==
    [status |-> 0, recipes |-> <<>>, source |-> "none", total |-> 0, hasMore |-> FALSE,
     localRecipes |-> 0, spoonacularRecipes |-> 0]

\* the JSON answer of GET in local-only mode
localResponse(table, fav, caller, p) ==
    LET total == Cardinality({r \in DOMAIN table :
                     searchWhere(table[r], caller, ~p.includePrivate, p.query)})
        rows == localQuery(table, fav, caller, ~p.includePrivate, p.query,
                           p.limit, p.offset)
    IN  [status |-> 200, recipes |-> rows, source |-> "user", total |-> total,
         hasMore |-> p.offset + p.limit < total,
         localRecipes |-> Len(rows), spoonacularRecipes |-> 0]

\* the JSON answer of searchAllSources
mixedResponse(localResults, spoonacularResults, js, p) ==
    LET allResults == localResults \o spoonacularResults
        shuffled == shuffle(allResults, Len(allResults) - 1, js)
    IN  [status |-> 200, recipes |-> slice(shuffled, 0, p.limit), source |-> "mixed",
         total |-> Len(allResults), hasMore |-> FALSE,
         localRecipes |-> Len(localResults),
         spoonacularRecipes |-> Len(spoonacularResults)]

\* the JSON answer of searchSpoonacularRecipes: 200 with the recipes, or its
\* catch: 500 without a recipes field
spoonacularResponse(ok, results, fav, caller, limit, offset) ==
    IF ok
    THEN [status |-> 200, recipes |-> spoonacularItems(results, fav, caller),
          source |-> "spoonacular", total |-> Len(results),
          hasMore |-> offset + limit < Len(results),
          localRecipes |-> 0, spoonacularRecipes |-> Len(results)]
    ELSE [NoResponse EXCEPT !.status = 500]

\* the Gateway search asked for the whole page in every mode
externalShare_wholePage(p) == p.limit

\* params.limit of the Gateway search: the whole page, or the external share
externalShare(p) ==
    IF p.source = "all" THEN p.limit - Min(LocalShare, p.limit) ELSE p.limit

\* GET up to its first await on the Gateway: validation, the caller, the
\* local query; local-only mode and a mixed page without external share answer
SearchStart(caller, p) ==
    /\ search.pc = "idle"
    /\ CASE p.source = "user" ->
              search' = [pc |-> "done", caller |-> caller, params |-> p, local |-> <<>>,
                         resp |-> localResponse(recipes, favorites, caller, p)]
         [] p.source = "spoonacular" ->
              search' = [pc |-> "external", caller |-> caller, params |-> p,
                         local |-> <<>>, resp |-> NoResponse]
         [] OTHER ->
              LET localResults == localQuery(recipes, favorites, caller, TRUE, p.query,
                                             Min(LocalShare, p.limit), 0)
              IN  IF externalShare(p) > 0
                  THEN search' = [pc |-> "external", caller |-> caller, params |-> p,
                                  local |-> localResults, resp |-> NoResponse]
                  ELSE \E js \in ShuffleChoices(Len(localResults)) :
                          search' = [pc |-> "done", caller |-> caller, params |-> p,
                                     local |-> localResults,
                                     resp |-> mixedResponse(localResults, <<>>, js, p)]
    /\ UNCHANGED <<gatewayVars, recipes, favorites>>

\* a handler that answers with the failure of searchSpoonacularRecipes
SearchFinish_failsWhole(ok, results, js) ==
    LET p == search.params
        inner == spoonacularResponse(ok, results, favorites, search.caller,
                                     externalShare(p), IF p.source = "all" THEN 0 ELSE p.offset)
    IN  search' = [search EXCEPT
           !.pc = "done",
           !.resp = IF p.source = "spoonacular" \/ ~ok THEN inner
                    ELSE mixedResponse(search.local, inner.recipes, js, p)]

\* what the handler does with the answer of searchSpoonacularRecipes
SearchFinish(ok, results, js) ==
    LET p == search.params
        inner == spoonacularResponse(ok, results, favorites, search.caller,
                                     externalShare(p), IF p.source = "all" THEN 0 ELSE p.offset)
    IN  search' = [search EXCEPT
           !.pc = "done",
           !.resp = IF p.source = "spoonacular" THEN inner
                    ELSE mixedResponse(search.local, inner.recipes, js, p)]

\* searchSpoonacularRecipes: spoonacularService.searchRecipes up to its fetch;
\* a refusal of the budget check is caught and answered at once
SearchCall ==
    /\ search.pc = "external"
    /\ GwBegin("h1", "searchRecipes")
    /\ IF checkRateLimit(requestCount, lastResetTime, now).throws
       THEN \E js \in ShuffleChoices(Len(search.local)) : SearchFinish(FALSE, <<>>, js)
       ELSE search' = [search EXCEPT !.pc = "fetching"]
    /\ UNCHANGED <<recipes, favorites>>

\* the provider's answer: the results are transformed and the page is built
SearchAnswer(answer, results) ==
    /\ search.pc = "fetching"
    /\ GwRespond("h1", answer)
    /\ \E js \in ShuffleChoices(Len(search.local)
                                + IF answer = "ok" THEN Len(results) ELSE 0) :
          SearchFinish(answer = "ok", IF answer = "ok" THEN results ELSE <<>>, js)
    /\ UNCHANGED <<recipes, favorites>>

SearchIdle ==
    search = [pc |-> "idle", caller |-> Anonymous,
              params |-> [source |-> "all", query |-> "", includePrivate |-> FALSE,
                          limit |-> 1, offset |-> 0],
              local |-> <<>>, resp |-> NoResponse]

\* the budget of the process when the request arrives: untouched or used up
GatewayUsed ==
    /\ requestCount \in {0, dailyLimit - 2, dailyLimit}
    /\ succeeded = requestCount
    /\ lastResetTime = 0
    /\ now = 0
    /\ call = [c \in Callers |-> NoCall]

SearchInit ==
    /\ recipes \in SearchStores
    /\ SearchIdle
    /\ GatewayUsed

\* the other components are at rest in SpecSearch
SearchFrame == UNCHANGED <<favReq, run, catVars, grocVars, coll, writeVars>>

SearchBegin ==
    \E caller \in SearchCallers, p \in SearchParams : SearchStart(caller, p) /\ SearchFrame

SearchExternal == SearchCall /\ SearchFrame

SearchEnd ==
    \E answer \in Answers, results \in ProviderResults(externalShare(search.params)) :
        SearchAnswer(answer, results) /\ SearchFrame

SearchNext ==
    \/ SearchBegin
    \/ SearchExternal
    \/ SearchEnd

----------------------------------------------------------------------------
(***************************************************************************)
(* Collection Assembler: GET /api/recipes/my-collection                    *)
(***************************************************************************)

\* Math.min(spoonacularFavoriteIds.length, 5)
FetchCap == 5

\* Bound of the number of external favorites of a user: above the cap.
MaxExternal == 6

\* Rows of table recipes in the collection specification.
CollRecipes ==
    [r \in {"c1", "c2", "c3", "c4"} |->
        CASE r = "c1" -> [userId |-> "A", visibility |-> "private", status |-> "published",
                          updatedAt |-> -4]
          [] r = "c2" -> [userId |-> "A", visibility |-> "private", status |-> "draft",
                          updatedAt |-> -2]
          [] r = "c3" -> [userId |-> "B", visibility |-> "public", status |-> "published",
                          updatedAt |-> -3]
          [] OTHER    -> [userId |-> "B", visibility |-> "private", status |-> "published",
                          updatedAt |-> -1]]

\* The provider's ids under which a user favorited its recipes.
ExternalIds == [k \in 1..MaxExternal |-> NumToString(6 + k)]

\* recipe_id of the rows of recipe_favorites, most recently created first
\* (created_at defaults to the time of the insert).
CollFavOrder == <<"c3">> \o ExternalIds \o <<"c1", "spoon_7", "c4", "07">>

CollFavIds == {CollFavOrder[k] : k \in 1..Len(CollFavOrder)}

\* The local favorites of the stores: none, an owned and a public recipe, or
\* a public recipe, another user's recipe and an id no recipe row has.
CollLocalPicks == {{}, {"c1", "c3"}, {"c3", "c4", "spoon_7"}}

\* (limit, offset) of the requests: the defaults, and a short second page.
CollPages == {<<20, 0>>, <<2, 1>>}

\* select recipeId from recipe_favorites where userId = u order by createdAt desc
favoritedRecipes(fav, u) ==
    LET Mine(id) == hasFavorite(fav, u, id)
    IN  SelectSeq(CollFavOrder, Mine)

\* the ids a sequence of rows or items holds
IdsOf(rows) == {rows[k] : k \in 1..Len(rows)}

\* one row of the two recipe queries, with isFavorited: true
collectionItem(table, r) ==
    [id |-> r, sourceType |-> "user", userId |-> table[r].userId,
     visibility |-> table[r].visibility, updatedAt |-> table[r].updatedAt,
     isFavorited |-> TRUE]

\* the caller's published recipes, ordered by updatedAt desc
userRecipes(table, u) ==
    LET ids == {r \in DOMAIN table : table[r].userId = u /\ table[r].status = "published"}
        rows == orderByUpdatedAtDesc(ids, table)
    IN  [k \in 1..Len(rows) |-> collectionItem(table, rows[k])]

\* favoritedRecipes.forEach: the numeric ids
spoonacularFavoriteIds(fav, u) == SelectSeq(favoritedRecipes(fav, u), isNumericId)

\* favoritedRecipes.forEach: the other ids, but for the caller's own recipes
localFavoriteIds(table, fav, u) ==
    LET owned == userRecipes(table, u)
        Local(id) == ~isNumericId(id) /\ \A k \in 1..Len(owned) : owned[k].id # id
    IN  SelectSeq(favoritedRecipes(fav, u), Local)

\* where id = ANY(localFavoriteIds) order by updatedAt desc
localFavorites(table, fav, u) ==
    LET ids == DOMAIN table \cap IdsOf(localFavoriteIds(table, fav, u))
        rows == orderByUpdatedAtDesc(ids, table)
    IN  [k \in 1..Len(rows) |-> collectionItem(table, rows[k])]

\* the number of fetches without the cap
maxSpoonacularFetch_noCap(n) == n

\* const maxSpoonacularFetch = Math.min(spoonacularFavoriteIds.length, 5)
maxSpoonacularFetch(n) == Min(n, FetchCap)

\* spoonacularFavorites.push({...}) for the favorite id fetched at time t
spoonacularFavorite(id, t) ==
    [id |-> NumToString(parseInt(id)), sourceType |-> "spoonacular",
     updatedAt |-> t, isFavorited |-> TRUE]

RECURSIVE sortRecent(_)
\* allRecipes.sort((a, b) => time(b) - time(a)): most recent first, stable
sortRecent(arr) ==
    IF Len(arr) = 0 THEN <<>>
    ELSE LET x == Head(arr)
             rest == sortRecent(Tail(arr))
             before == {k \in 1..Len(rest) : rest[k].updatedAt > x.updatedAt}
         IN  SubSeq(rest, 1, Cardinality(before)) \o <<x>>
                \o SubSeq(rest, Cardinality(before) + 1, Len(rest))

NoCollection ==
    [status |-> 0, recipes |-> <<>>, total |-> 0, hasMore |-> FALSE,
     userRecipes |-> 0, favoritedRecipes |-> 0, totalCount |-> 0]

\* combine, sort, paginate, answer
collResponse(c) ==
    LET allRecipes == sortRecent(c.owned \o c.local \o c.fetched)
    IN  [c EXCEPT
           !.pc = "done",
           !.assembled = allRecipes,
           !.resp = [status |-> 200,
                     recipes |-> slice(allRecipes, c.offset, c.offset + c.limit),
                     total |-> Len(allRecipes),
                     hasMore |-> c.offset + c.limit < Len(allRecipes),
                     userRecipes |-> Len(c.owned),
                     favoritedRecipes |-> Len(c.local) + Len(c.fetched),
                     totalCount |-> Len(allRecipes)]]

\* the loop condition i < maxSpoonacularFetch: the next fetch, or the answer
collLoop(c) == IF c.i < c.max THEN c ELSE collResponse(c)

\* the loop without its inner try: a failed fetch leaves the loop for the
\* outer catch, the favorites after it are not fetched
afterFetch_outerCatch(c, outcome, t) ==
    IF outcome = "ok"
    THEN [c EXCEPT !.i = @ + 1, !.outcomes = Append(@, outcome),
                   !.fetched = Append(@, spoonacularFavorite(c.ids[c.i + 1], t))]
    ELSE [c EXCEPT !.i = c.max, !.outcomes = Append(@, outcome)]

\* one iteration of the loop after getRecipeInformation settled: the item is
\* pushed, or the inner catch logs the error; then i++
afterFetch(c, outcome, t) ==
    IF outcome = "ok"
    THEN [c EXCEPT !.i = @ + 1, !.outcomes = Append(@, outcome),
                   !.fetched = Append(@, spoonacularFavorite(c.ids[c.i + 1], t))]
    ELSE [c EXCEPT !.i = @ + 1, !.outcomes = Append(@, outcome)]

\* GET up to the loop: the three queries and the split of the favorites
CollStart(u, limit, offset) ==
    /\ coll.pc = "idle"
    /\ LET ids == spoonacularFavoriteIds(favorites, u)
       IN  coll' = collLoop([pc |-> "loop", user |-> u, limit |-> limit, offset |-> offset,
                             owned |-> userRecipes(recipes, u),
                             local |-> localFavorites(recipes, favorites, u),
                             ids |-> ids, max |-> maxSpoonacularFetch(Len(ids)), i |-> 0,
                             fetched |-> <<>>, outcomes |-> <<>>, calls |-> 0,
                             inFlight |-> 0, before |-> requestCount,
                             assembled |-> <<>>, resp |-> NoCollection])
    /\ UNCHANGED <<gatewayVars, recipes, favorites>>

\* await spoonacularService.getRecipeInformation(spoonId) up to its fetch; a
\* refusal of the budget check is caught by the inner catch
CollFetch ==
    /\ coll.pc = "loop"
    /\ GwBegin("h1", "getRecipeInformation")
    /\ IF checkRateLimit(requestCount, lastResetTime, now).throws
       THEN coll' = collLoop(afterFetch([coll EXCEPT !.calls = @ + 1], "rateLimited", now))
       ELSE coll' = [coll EXCEPT !.pc = "fetching", !.calls = @ + 1, !.inFlight = @ + 1]
    /\ UNCHANGED <<recipes, favorites>>

\* the provider's answer to the fetch of the loop
CollAnswer(answer) ==
    /\ coll.pc = "fetching"
    /\ GwRespond("h1", answer)
    /\ coll' = collLoop(afterFetch([coll EXCEPT !.pc = "loop", !.inFlight = @ - 1],
                                   answer, now))
    /\ UNCHANGED <<recipes, favorites>>

CollIdle ==
    coll = [pc |-> "idle", user |-> "A", limit |-> 20, offset |-> 0, owned |-> <<>>,
            local |-> <<>>, ids |-> <<>>, max |-> 0, i |-> 0, fetched |-> <<>>,
            outcomes |-> <<>>, calls |-> 0, inFlight |-> 0, before |-> 0,
            assembled |-> <<>>, resp |-> NoCollection]

\* A's favorites: her n oldest external ones and one of the local picks
CollInit ==
    /\ recipes = CollRecipes
    /\ \E n \in 0..MaxExternal, picks \in CollLocalPicks :
          favorites = [pr \in Users \X CollFavIds |->
                          IF /\ pr[1] = "A"
                             /\ \/ pr[2] \in picks
                                \/ \E k \in 1..n : ExternalIds[k] = pr[2]
                          THEN 1 ELSE 0]
    /\ CollIdle
    /\ GatewayUsed

\* the other components are at rest in SpecCollection
CollFrame == UNCHANGED <<favReq, run, catVars, grocVars, search, writeVars>>

CollBegin ==
    \E u \in Users, pg \in CollPages : CollStart(u, pg[1], pg[2]) /\ CollFrame

CollCall == CollFetch /\ CollFrame

CollEnd == \E answer \in Answers : CollAnswer(answer) /\ CollFrame

\* Date.now() moves on while the request is served
CollClock ==
    /\ coll.pc \in {"loop", "fetching"}
    /\ Tick(1)
    /\ UNCHANGED <<recipes, favorites, coll>>
    /\ CollFrame

CollNext ==
    \/ CollBegin
    \/ CollCall
    \/ CollEnd
    \/ CollClock

----------------------------------------------------------------------------
(***************************************************************************)
(* A caller's favorites seen through search and collection                 *)
(***************************************************************************)

\* Rows of table recipes where favorites, search and collection meet: r1 is
\* A's private recipe, r2 is B's public one.
JourneyRecipes ==
    [r \in {"r1", "r2"} |->
        IF r = "r1"
        THEN [userId |-> "A", visibility |-> "private", status |-> "published",
              sourceType |-> "user", title |-> "Onion Soup", description |-> "",
              cuisine |-> "", updatedAt |-> -2]
        ELSE [userId |-> "B", visibility |-> "public", status |-> "published",
              sourceType |-> "user", title |-> "Tart", description |-> "",
              cuisine |-> "", updatedAt |-> -1]]

\* The searches of B: a mixed page and an external page, no query term.
JourneySearches ==
    {[source |-> src, query |-> "", includePrivate |-> FALSE,
      limit |-> LocalShare + 1, offset |-> 0] : src \in {"all", "spoonacular"}}

\* toggle/route.ts POST by B with the id unified search returns
ExtToggleBegin == ToggleCheck("q1", "B", "spoon_7") /\ FavFrame

ExtToggleEnd == ToggleWrite("q1") /\ FavFrame

\* GET /api/recipes/search by B
ExtSearchBegin == \E p \in JourneySearches : SearchStart("B", p) /\ SearchFrame

\* the provider returns its recipe 7, or the call fails
ExtSearchEnd ==
    \E answer \in Answers : SearchAnswer(answer, <<7>>) /\ SearchFrame

\* GET /api/recipes/my-collection by B
ExtCollection == CollStart("B", 20, 0) /\ CollFrame

ExtFavNext ==
    \/ ExtToggleBegin
    \/ ExtToggleEnd
    \/ ExtSearchBegin
    \/ SearchExternal
    \/ ExtSearchEnd
    \/ ExtCollection

----------------------------------------------------------------------------
(***************************************************************************)
(* Grocery List update: PUT /api/grocery-lists/[id]                        *)
(***************************************************************************)

\* Concurrent handlers of PUT requests.
PutSlots == {"p1", "p2"}

\* the two ingredients of the stored list, with their checked flags
PutItems(c1, c2) ==
    << [name |-> "milk", amount |-> "1", unit |-> "l", category |-> "dairy",
        checked |-> c1, recipeSources |-> <<>>, notes |-> ""],
       [name |-> "eggs", amount |-> "6", unit |-> "", category |-> "pantry",
        checked |-> c2, recipeSources |-> <<>>, notes |-> ""] >>

\* the manual extra of the stored list
PutExtras(c) == << [name |-> "soap", category |-> "other", checked |-> c, notes |-> ""] >>

\* Request bodies: an optional field is <<>> when absent and <<value>> when
\* present; status is "" when absent. One field per request.
PutBodies ==
    {b \in [status : {"", "active", "completed", "archived"},
            ingredients : {<<>>} \cup {<<PutItems(c1, c2)>> : c1, c2 \in BOOLEAN},
            additionalItems : {<<>>} \cup {<<PutExtras(c)>> : c \in BOOLEAN}] :
        \/ b.status # "" /\ b.ingredients = <<>> /\ b.additionalItems = <<>>
        \/ b.status = "" /\ b.ingredients # <<>> /\ b.additionalItems = <<>>
        \/ b.status = "" /\ b.ingredients = <<>> /\ b.additionalItems # <<>>}

NoBody == [status |-> "", ingredients |-> <<>>, additionalItems |-> <<>>]

IdlePut == [pc |-> "idle", user |-> "A", id |-> 1, body |-> NoBody, status |-> 0]

\* updateGroceryListSchema.safeParse: status is 'active' or 'completed'
validUpdate(body) == body.status \in {"", "active", "completed"}

\* .set({...}) of the update: the fields the body carries, completedAt with a
\* status of 'completed', updatedAt always
updatedRow(row, body, t) ==
    [row EXCEPT
       !.ingredients = IF body.ingredients # <<>> THEN body.ingredients[1] ELSE @,
       !.additionalItems = IF body.additionalItems # <<>> THEN body.additionalItems[1] ELSE @,
       !.status = IF body.status # "" THEN body.status ELSE @,
       !.completedAt = IF body.status = "completed" THEN <<t>> ELSE @,
       !.updatedAt = <<t>>]

\* PUT up to its update: validation, the list, the caller's membership
PutStart(s, u, id, body) ==
    /\ putReq[s].pc \in {"idle", "done"}
    /\ LET answer ==
              IF ~validUpdate(body) THEN 400
              ELSE IF id \notin 1..Len(groceryLists) THEN 404
              ELSE IF <<groceryLists[id].familyGroupId, u>> \notin members THEN 403
              ELSE 0
       IN  putReq' = [putReq EXCEPT ![s] =
              IF answer = 0
              THEN [pc |-> "update", user |-> u, id |-> id, body |-> body, status |-> 0]
              ELSE [IdlePut EXCEPT !.pc = "done", !.status = answer]]
    /\ UNCHANGED <<groceryLists, members, now>>

\* PUT: the update of the row and the answer
PutWrite(s) ==
    /\ putReq[s].pc = "update"
    /\ groceryLists' = [groceryLists EXCEPT ![putReq[s].id] =
                           updatedRow(@, putReq[s].body, now)]
    /\ putReq' = [putReq EXCEPT ![s] = [IdlePut EXCEPT !.pc = "done", !.status = 200]]
    /\ UNCHANGED <<members, now>>

PutIdle == putReq = [s \in PutSlots |-> IdlePut]

\* one active list of group g1 as POST stored it; B is a member of g1 or not
PutInit ==
    /\ members \in {{<<"g1", "A">>, <<"g1", "B">>}, {<<"g1", "A">>, <<"g2", "B">>}}
    /\ groceryLists = << [familyGroupId |-> "g1", mealPlanId |-> "", createdBy |-> "A",
                          ingredients |-> PutItems(FALSE, FALSE),
                          additionalItems |-> PutExtras(FALSE),
                          status |-> "active", completedAt |-> NullDate,
                          updatedAt |-> <<0>>] >>
    /\ PutIdle

\* the other components are at rest in SpecGroceryUpdate
PutFrame ==
    UNCHANGED <<recipes, requestCount, lastResetTime, call, succeeded, favVars, catVars,
                mealPlans, grocResp, grocLoaded, readVars, recipeReq, planReq>>

PutBegin ==
    \E s \in PutSlots, u \in Users, id \in 1..2, body \in PutBodies :
        PutStart(s, u, id, body) /\ PutFrame

PutEnd == \E s \in PutSlots : PutWrite(s) /\ PutFrame

PutNext ==
    \/ PutBegin
    \/ PutEnd

\* toggleItemChecked: updatedItems = [...items] with the checked flag of
\* item itemIndex negated
toggledItems(items, itemIndex) == [items EXCEPT ![itemIndex].checked = ~@]

\* body: JSON.stringify({[itemType]: updatedItems})
toggleBody(list, itemType, itemIndex) ==
    IF itemType = "ingredients"
    THEN [NoBody EXCEPT !.ingredients = <<toggledItems(list.ingredients, itemIndex)>>]
    ELSE [NoBody EXCEPT !.additionalItems = <<toggledItems(list.additionalItems, itemIndex)>>]

\* toggleItemChecked(listId, itemType, itemIndex) of the grocery page up to
\* the PUT it sends; the page's copy of the list is as fresh as it can be:
\* the stored list at the time of the click
toggleItemChecked(s, u, listId, itemType, itemIndex) ==
    /\ putReq[s].pc \in {"idle", "done"}
    /\ PutStart(s, u, listId, toggleBody(groceryLists[listId], itemType, itemIndex))

\* one active list of group g1 with any flags; A and B are members of g1
TapInit ==
    /\ members = {<<"g1", "A">>, <<"g1", "B">>}
    /\ \E c1, c2, c \in BOOLEAN :
          groceryLists = << [familyGroupId |-> "g1", mealPlanId |-> "", createdBy |-> "A",
                             ingredients |-> PutItems(c1, c2),
                             additionalItems |-> PutExtras(c),
                             status |-> "active", completedAt |-> NullDate,
                             updatedAt |-> <<0>>] >>
    /\ PutIdle

\* A's page toggles the first ingredient or the extra
TapFirst ==
    \E tap \in {<<"ingredients", 1>>, <<"additionalItems", 1>>} :
        toggleItemChecked("p1", "A", 1, tap[1], tap[2]) /\ PutFrame

\* B's page toggles the second ingredient
TapSecond == toggleItemChecked("p2", "B", 1, "ingredients", 2) /\ PutFrame

TapNext ==
    \/ TapFirst
    \/ TapSecond
    \/ PutEnd

----------------------------------------------------------------------------
(***************************************************************************)
(* Recipes by id: GET, PUT, DELETE /api/recipes/[id]                       *)
(***************************************************************************)

\* Rows of table recipes in the recipes-by-id specification.
RecipeRows ==
    [r \in {"r1", "r2"} |->
        IF r = "r1"
        THEN [userId |-> "A", visibility |-> "private", status |-> "published",
              sourceType |-> "user", updatedAt |-> 0]
        ELSE [userId |-> "B", visibility |-> "public", status |-> "published",
              sourceType |-> "user", updatedAt |-> 0]]

\* Ids of the requests: two local recipes, a provider id, the id unified
\* search gives the provider's recipe (the id of no row).
RecipeIds == {"r1", "r2", "7", "spoon_7"}

\* Request bodies of PUT: one field each; the last one fails the schema.
RecipeBodies ==
    {[visibility |-> v] : v \in {"public", "family", "secret"}}
        \cup {[status |-> s] : s \in {"archived"}}

\* updateRecipeSchema.safeParse, for the fields of the bodies
validRecipeUpdate(body) ==
    /\ "visibility" \in DOMAIN body => body.visibility \in {"public", "family", "private"}
    /\ "status" \in DOMAIN body => body.status \in {"draft", "published", "archived"}

\* The fields of an Error the Gateway throws, by what happened to the call:
\* checkRateLimit's throw, the two throws after fetch, the rejection of fetch.
errorMessage(outcome) ==
    CASE outcome = "rateLimited" -> "Daily rate limit exceeded"
      [] outcome = "http429" -> "Rate limit exceeded"
      [] outcome = "http404" -> "API request failed: 404 Not Found - Unknown error"
      [] outcome = "httpError" ->
            "API request failed: 500 Internal Server Error - Unknown error"
      [] OTHER -> "fetch failed"

\* the catch of getSpoonacularRecipe
fetchErrorStatus(message) ==
    IF includes(message, "Rate limit") THEN 429
    ELSE IF includes(message, "API request failed") THEN 404
    ELSE 500

\* SpoonacularService.transformToRecipe: the row made of a provider recipe
transformToRecipe(spoonacularId, userId) ==
    [userId |-> userId, spoonacularId |-> spoonacularId, sourceType |-> "spoonacular",
     visibility |-> "public", status |-> "published"]

\* the recipe getSpoonacularRecipe answers with
spoonacularRecipe(id, fav, caller) ==
    [id |-> id, userId |-> "null", spoonacularId |-> parseInt(id),
     sourceType |-> "spoonacular", visibility |-> "public", status |-> "published",
     isFavorited |-> caller # Anonymous
                       /\ hasFavorite(fav, caller, NumToString(parseInt(id)))]

\* the recipe GET answers with for a row of the store
localRecipe(table, r) ==
    [id |-> r, userId |-> table[r].userId, sourceType |-> table[r].sourceType,
     visibility |-> table[r].visibility, status |-> table[r].status]

IdleRecipeReq ==
    [pc |-> "idle", op |-> "none", user |-> Anonymous, id |-> "", status |-> 0,
     recipe |-> <<>>, upstream |-> "none", changed |-> FALSE]

\* the answer of a finished request
RecipeDone(op, u, id, status, recipe, upstream, changed) ==
    [pc |-> "done", op |-> op, user |-> u, id |-> id, status |-> status,
     recipe |-> recipe, upstream |-> upstream, changed |-> changed]

\* GET up to its first await that leaves the process: a numeric id goes to
\* getSpoonacularRecipe, any other id to the store and the visibility checks
RecipeGetStart(u, id) ==
    /\ recipeReq.pc \in {"idle", "done"}
    /\ IF isNumericId(id)
       THEN /\ GwBegin("h1", "getRecipeInformation")
            /\ IF checkRateLimit(requestCount, lastResetTime, now).throws
               THEN recipeReq' = RecipeDone("get", u, id,
                                     fetchErrorStatus(errorMessage("rateLimited")),
                                     <<>>, "rateLimited", FALSE)
               ELSE recipeReq' = [IdleRecipeReq EXCEPT !.pc = "fetching", !.op = "get",
                                                       !.user = u, !.id = id]
       ELSE /\ recipeReq' =
                  IF id \notin DOMAIN recipes
                  THEN RecipeDone("get", u, id, 404, <<>>, "none", FALSE)
                  ELSE IF recipes[id].visibility = "private"
                          /\ (u = Anonymous \/ recipes[id].userId # u)
                  THEN RecipeDone("get", u, id, 404, <<>>, "none", FALSE)
                  ELSE IF recipes[id].visibility = "family"
                          /\ (u = Anonymous \/ recipes[id].userId # u)
                  THEN RecipeDone("get", u, id, 404, <<>>, "none", FALSE)
                  ELSE RecipeDone("get", u, id, 200, <<localRecipe(recipes, id)>>,
                                  "none", FALSE)
            /\ UNCHANGED gatewayVars
    /\ UNCHANGED <<recipes, favorites>>

\* getSpoonacularRecipe after the Gateway's answer: the recipe, or the catch
RecipeGetFinish(answer) ==
    /\ recipeReq.pc = "fetching"
    /\ GwRespond("h1", answer)
    /\ recipeReq' =
          IF answer = "ok"
          THEN RecipeDone("get", recipeReq.user, recipeReq.id, 200,
                          <<spoonacularRecipe(recipeReq.id, favorites, recipeReq.user)>>,
                          answer, FALSE)
          ELSE RecipeDone("get", recipeReq.user, recipeReq.id,
                          fetchErrorStatus(errorMessage(answer)), <<>>, answer, FALSE)
    /\ UNCHANGED <<recipes, favorites>>

\* .set({...data, readyInMinutes, updatedAt: new Date()})
updatedRecipe(row, body, t) ==
    [f \in DOMAIN row |->
        IF f \in DOMAIN body THEN body[f]
        ELSE IF f = "updatedAt" THEN t
        ELSE row[f]]

\* PUT: the numeric-id guard, validation, the caller's own recipe, the update
RecipePut(u, id, body) ==
    /\ recipeReq.pc \in {"idle", "done"}
    /\ LET answer ==
              IF isNumericId(id) THEN 403
              ELSE IF ~validRecipeUpdate(body) THEN 400
              ELSE IF id \notin DOMAIN recipes \/ recipes[id].userId # u THEN 404
              ELSE 200
       IN  /\ recipes' = IF answer = 200
                         THEN [recipes EXCEPT ![id] = updatedRecipe(@, body, now)]
                         ELSE recipes
           /\ recipeReq' = RecipeDone("put", u, id, answer,
                               IF answer = 200 THEN <<localRecipe(recipes', id)>> ELSE <<>>,
                               "none", recipes' # recipes)
    /\ UNCHANGED <<gatewayVars, favorites>>

\* DELETE: the numeric-id guard, the caller's own recipe, the delete
RecipeDelete(u, id) ==
    /\ recipeReq.pc \in {"idle", "done"}
    /\ LET answer ==
              IF isNumericId(id) THEN 403
              ELSE IF id \notin DOMAIN recipes \/ recipes[id].userId # u THEN 404
              ELSE 200
       IN  /\ recipes' = IF answer = 200
                         THEN [r \in DOMAIN recipes \ {id} |-> recipes[r]]
                         ELSE recipes
           /\ recipeReq' = RecipeDone("delete", u, id, answer, <<>>, "none",
                                      recipes' # recipes)
    /\ UNCHANGED <<gatewayVars, favorites>>

\* a caller of the Gateway normalizes a provider recipe for a user
RecipeTransform(u, id) ==
    /\ recipeReq.pc \in {"idle", "done"}
    /\ isNumericId(id)
    /\ recipeReq' = RecipeDone("transform", u, id, 0,
                               <<transformToRecipe(parseInt(id), u)>>, "none", FALSE)
    /\ UNCHANGED <<gatewayVars, recipes, favorites>>

RecipeIdle == recipeReq = IdleRecipeReq

\* the store, the favorites of A, and a budget with one call left or none
RecipeInit ==
    /\ recipes = RecipeRows
    /\ favorites \in {[p \in {<<"A", "7">>} |-> n] : n \in {0, 1}}
    /\ RecipeIdle
    /\ requestCount \in {dailyLimit - 1, dailyLimit}
    /\ succeeded = requestCount
    /\ lastResetTime = 0
    /\ now = 0
    /\ call = [c \in Callers |-> NoCall]

\* the other components are at rest in SpecRecipe
RecipeFrame == UNCHANGED <<favReq, run, catVars, grocVars, readVars, putReq, planReq>>

RecipeGetBegin ==
    \E u \in Users \cup {Anonymous}, id \in RecipeIds : RecipeGetStart(u, id) /\ RecipeFrame

RecipeGetEnd == \E answer \in Answers : RecipeGetFinish(answer) /\ RecipeFrame

RecipeUpdate ==
    \E u \in Users, id \in RecipeIds, body \in RecipeBodies :
        RecipePut(u, id, body) /\ RecipeFrame

RecipeRemove == \E u \in Users, id \in RecipeIds : RecipeDelete(u, id) /\ RecipeFrame

RecipeNormalize == \E u \in Users, id \in RecipeIds : RecipeTransform(u, id) /\ RecipeFrame

RecipeNext ==
    \/ RecipeGetBegin
    \/ RecipeGetEnd
    \/ RecipeUpdate
    \/ RecipeRemove
    \/ RecipeNormalize

----------------------------------------------------------------------------
(***************************************************************************)
(* A caller's shelf: favorites written by the toggle and add routes, the   *)
(* owner's visibility updates, then GET /api/recipes/my-collection         *)
(***************************************************************************)

\* The rows of CollRecipes with the column the recipe routes answer with.
ShelfRecipes ==
    [r \in DOMAIN CollRecipes |->
        [userId |-> CollRecipes[r].userId, visibility |-> CollRecipes[r].visibility,
         status |-> CollRecipes[r].status, sourceType |-> "user",
         updatedAt |-> CollRecipes[r].updatedAt]]

\* The ids A sends to the toggle route (params.id is stored as it is sent):
\* the provider's recipe 7 written in two ways, her published recipe c1 and
\* B's recipe c4.
ShelfIds == {"7", "07", "c1", "c4"}

\* The visibility B gives to c4 (PUT /api/recipes/c4).
ShelfVisibilities == {"private", "public"}

ShelfInit ==
    /\ recipes = ShelfRecipes
    /\ favorites = [pr \in Users \X CollFavIds |-> 0]
    /\ favReq = [s \in FavSlots |-> IdleReq("none")]
    /\ run = [pr \in Users \X CollFavIds |-> Void]
    /\ CollIdle
    /\ GatewayIdle

\* the requests that write are served before the collection is asked for
ShelfToggleBegin ==
    coll.pc = "idle" /\ \E id \in ShelfIds : ToggleCheck("q1", "A", id) /\ FavFrame

ShelfToggleEnd == coll.pc = "idle" /\ ToggleWrite("q1") /\ FavFrame

ShelfAddBegin == coll.pc = "idle" /\ AddStart("q2", "A", "c4") /\ FavFrame

ShelfAddMiddle == coll.pc = "idle" /\ AddCheck("q2") /\ FavFrame

ShelfAddEnd == coll.pc = "idle" /\ AddInsert("q2") /\ FavFrame

ShelfVisibility ==
    /\ coll.pc = "idle"
    /\ \E v \in ShelfVisibilities : RecipePut("B", "c4", [visibility |-> v]) /\ RecipeFrame

ShelfCollection == \E pg \in CollPages : CollStart("A", pg[1], pg[2]) /\ CollFrame

ShelfNext ==
    \/ ShelfToggleBegin
    \/ ShelfToggleEnd
    \/ ShelfAddBegin
    \/ ShelfAddMiddle
    \/ ShelfAddEnd
    \/ ShelfVisibility
    \/ ShelfCollection
    \/ CollCall
    \/ CollEnd
    \/ CollClock

----------------------------------------------------------------------------
(***************************************************************************)
(* Meal plans: POST /api/meal-plans, PUT /api/meal-plans/[id]              *)
(***************************************************************************)

\* Bound of the number of rows of meal_plans.
MaxPlans == 2

\* Concurrent handlers of meal-plan requests.
PlanSlots == {"m1", "m2"}

PlanGroups == {"g1", "g2"}

\* weekStartDate of the requests: two weeks, and a text that is no date
PlanWeeks == {"2026-11-02", "2026-11-09", "monday"}

\* /^\d{4}-\d{2}-\d{2}$/.test(str)
isDateText(str) ==
    /\ Len(str) = 10
    /\ \A i \in {1, 2, 3, 4, 6, 7, 9, 10} : isNumericId(SubSeq(str, i, i))
    /\ \A i \in {5, 8} : SubSeq(str, i, i) = "-"

\* Request bodies of PUT: isActive absent (<<>>, another field is updated) or present
PlanBodies == {<<>>, <<TRUE>>, <<FALSE>>}

IdlePlan == [pc |-> "idle", user |-> "A", group |-> "g1", week |-> "", id |-> 0,
             body |-> <<>>, status |-> 0]

PlanDone(status) == [IdlePlan EXCEPT !.pc = "done", !.status = status]

\* select ... where familyGroupId = g and weekStartDate = w and isActive = true limit 1
existingPlan(plans, g, w) ==
    \E i \in 1..Len(plans) :
        plans[i].familyGroupId = g /\ plans[i].weekStartDate = w /\ plans[i].isActive

\* POST up to its insert: validation, membership, the active plan of the week
PlanCreateStart(s, u, g, w) ==
    /\ planReq[s].pc \in {"idle", "done"}
    /\ planReq' = [planReq EXCEPT ![s] =
          IF ~isDateText(w) THEN PlanDone(400)
          ELSE IF <<g, u>> \notin members THEN PlanDone(403)
          ELSE IF existingPlan(mealPlans, g, w) THEN PlanDone(409)
          ELSE [IdlePlan EXCEPT !.pc = "insert", !.user = u, !.group = g, !.week = w]]
    /\ UNCHANGED <<mealPlans, members, now>>

\* POST: insert into meal_plans ... isActive: true, answered 201
PlanCreateInsert(s) ==
    /\ planReq[s].pc = "insert"
    /\ Len(mealPlans) < MaxPlans
    /\ mealPlans' = Append(mealPlans,
                       [familyGroupId |-> planReq[s].group,
                        weekStartDate |-> planReq[s].week,
                        createdBy |-> planReq[s].user,
                        isActive |-> TRUE, updatedAt |-> <<now>>])
    /\ planReq' = [planReq EXCEPT ![s] = PlanDone(201)]
    /\ UNCHANGED <<members, now>>

\* PUT up to its update: the plan, membership, the creator
PlanUpdateStart(s, u, id, body) ==
    /\ planReq[s].pc \in {"idle", "done"}
    /\ planReq' = [planReq EXCEPT ![s] =
          IF id \notin 1..Len(mealPlans) THEN PlanDone(404)
          ELSE IF <<mealPlans[id].familyGroupId, u>> \notin members THEN PlanDone(403)
          ELSE IF mealPlans[id].createdBy # u THEN PlanDone(403)
          ELSE [IdlePlan EXCEPT !.pc = "update", !.user = u, !.id = id, !.body = body]]
    /\ UNCHANGED <<mealPlans, members, now>>

\* .set({... isActive when the body carries it, updatedAt: new Date()})
updatedPlan(row, body, t) ==
    [row EXCEPT !.isActive = IF body # <<>> THEN body[1] ELSE @,
                !.updatedAt = <<t>>]

\* PUT: the update of the row, answered 200
PlanUpdateWrite(s) ==
    /\ planReq[s].pc = "update"
    /\ mealPlans' = [mealPlans EXCEPT ![planReq[s].id] = updatedPlan(@, planReq[s].body, now)]
    /\ planReq' = [planReq EXCEPT ![s] = PlanDone(200)]
    /\ UNCHANGED <<members, now>>

PlanIdle == planReq = [s \in PlanSlots |-> IdlePlan]

\* no meal plan yet; A and B are members of g1, nobody of g2
PlanInit ==
    /\ members = {<<"g1", "A">>, <<"g1", "B">>}
    /\ mealPlans = <<>>
    /\ PlanIdle

\* the other components are at rest in SpecPlan
PlanFrame ==
    UNCHANGED <<recipes, requestCount, lastResetTime, call, succeeded, favVars, catVars,
                groceryLists, grocResp, grocLoaded, readVars, putReq, recipeReq>>

PlanCreateBegin ==
    \E s \in PlanSlots, u \in Users, g \in PlanGroups, w \in PlanWeeks :
        PlanCreateStart(s, u, g, w) /\ PlanFrame

PlanCreateEnd == \E s \in PlanSlots : PlanCreateInsert(s) /\ PlanFrame

PlanUpdateBegin ==
    \E s \in PlanSlots, u \in Users, id \in 1..(MaxPlans + 1), body \in PlanBodies :
        PlanUpdateStart(s, u, id, body) /\ PlanFrame

PlanUpdateEnd == \E s \in PlanSlots : PlanUpdateWrite(s) /\ PlanFrame

PlanNext ==
    \/ PlanCreateBegin
    \/ PlanCreateEnd
    \/ PlanUpdateBegin
    \/ PlanUpdateEnd

\* the handlers of recipes and meal plans at rest
WriteIdle == PutIdle /\ RecipeIdle /\ PlanIdle

(***************************************************************************)
(* Specifications                                                          *)
(***************************************************************************)

\* the handlers of search, collection and the row updates at rest
ReadIdle == SearchIdle /\ CollIdle /\ WriteIdle

InitGateway ==
    GatewayInit /\ recipes = FavRecipes /\ FavIdle /\ CatIdle /\ GrocIdle /\ ReadIdle

SpecGateway == InitGateway /\ [][GatewayNext]_vars

InitFav == FavInit /\ GatewayIdle /\ CatIdle /\ GrocIdle /\ ReadIdle

SpecFav == InitFav /\ [][FavNext]_vars

InitCat ==
    CatInit /\ GatewayIdle /\ recipes = FavRecipes /\ FavIdle /\ GrocIdle /\ ReadIdle

SpecCat == InitCat /\ [][CatNext]_vars

InitGrocery == GrocInit /\ GatewayIdle /\ FavIdle /\ CatIdle /\ ReadIdle

SpecGrocery == InitGrocery /\ [][GrocNext]_vars

InitSearch ==
    SearchInit /\ favReq = [s \in FavSlots |-> IdleReq("none")] /\ run = [p \in Pairs |-> Void]
        /\ favorites = [p \in Pairs |-> 0] /\ CatIdle /\ GrocIdle /\ CollIdle /\ WriteIdle

SpecSearch == InitSearch /\ [][SearchNext]_vars

InitSearchWide ==
    recipes = SearchWideStore /\ SearchIdle /\ GatewayUsed
        /\ favReq = [s \in FavSlots |-> IdleReq("none")] /\ run = [p \in Pairs |-> Void]
        /\ favorites = [p \in Pairs |-> 0] /\ CatIdle /\ GrocIdle /\ CollIdle /\ WriteIdle

SpecSearchWide == InitSearchWide /\ [][SearchNext]_vars

InitExtFav ==
    recipes = JourneyRecipes /\ FavIdle /\ GatewayIdle /\ CatIdle /\ GrocIdle /\ ReadIdle

SpecExtFav == InitExtFav /\ [][ExtFavNext]_vars

InitShelf ==
    ShelfInit /\ CatIdle /\ GrocIdle /\ SearchIdle /\ WriteIdle

SpecShelf == InitShelf /\ [][ShelfNext]_vars

InitCollection ==
    CollInit /\ favReq = [s \in FavSlots |-> IdleReq("none")] /\ run = [p \in Pairs |-> Void]
        /\ CatIdle /\ GrocIdle /\ SearchIdle /\ WriteIdle

SpecCollection == InitCollection /\ [][CollNext]_vars

InitGroceryUpdate ==
    PutInit /\ GatewayIdle /\ recipes = FavRecipes /\ FavIdle /\ CatIdle
        /\ mealPlans = [id \in {"mp1"} |->
                          [familyGroupId |-> "g1", meals |-> [sl \in Slots |-> NoRecipe]]]
        /\ grocResp = NoGrocResp /\ grocLoaded = <<>>
        /\ SearchIdle /\ CollIdle /\ RecipeIdle /\ PlanIdle

SpecGroceryUpdate == InitGroceryUpdate /\ [][PutNext]_vars

InitTap ==
    TapInit /\ GatewayIdle /\ recipes = FavRecipes /\ FavIdle /\ CatIdle
        /\ mealPlans = [id \in {"mp1"} |->
                          [familyGroupId |-> "g1", meals |-> [sl \in Slots |-> NoRecipe]]]
        /\ grocResp = NoGrocResp /\ grocLoaded = <<>>
        /\ SearchIdle /\ CollIdle /\ RecipeIdle /\ PlanIdle

SpecTap == InitTap /\ [][TapNext]_vars

InitRecipe ==
    RecipeInit /\ favReq = [s \in FavSlots |-> IdleReq("none")] /\ run = [p \in Pairs |-> Void]
        /\ CatIdle /\ GrocIdle /\ SearchIdle /\ CollIdle /\ PutIdle /\ PlanIdle

SpecRecipe == InitRecipe /\ [][RecipeNext]_vars

InitPlan ==
    PlanInit /\ GatewayIdle /\ recipes = FavRecipes /\ FavIdle /\ CatIdle
        /\ groceryLists = <<>> /\ grocResp = NoGrocResp /\ grocLoaded = <<>>
        /\ SearchIdle /\ CollIdle /\ PutIdle /\ RecipeIdle

SpecPlan == InitPlan /\ [][PlanNext]_vars

----------------------------------------------------------------------------
(***************************************************************************)
(* Claims about the Gateway's budget (SpecGateway)                         *)
(***************************************************************************)

\* caller c enters makeRequest in this step
Begins(c) == call[c].st # "fetching" /\ call'[c] # call[c]

\* C1: once dailyLimit calls have succeeded within the window, every further
\* call (of any of the three endpoints) made while now - lastResetTime is at
\* most 24 hours fails with the rate-limited error, and no request goes on
\* the wire: no caller newly reaches the fetch.
C1_ExhaustedFailsFast ==
    [][(succeeded >= dailyLimit /\ now - lastResetTime <= DayMs)
         => \A c \in Callers :
              /\ call'[c].st = "fetching" => call[c].st = "fetching"
              /\ Begins(c) => call'[c].st = "rateLimited"]_vars

\* C1 witness: the quota is used up, the window is still open, and a call of
\* getRecipeInformation has been refused.
C1_Witness ==
    /\ succeeded >= dailyLimit
    /\ now - lastResetTime <= DayMs
    /\ \E c \in Callers : call[c] = [st |-> "rateLimited", kind |-> "getRecipeInformation",
                                     reset |-> FALSE, alone |-> TRUE]

Answered(c) == call[c].st = "fetching" /\ call'[c].st # "fetching"

\* C18: the budget check and the increment of one call are not atomic: the
\* quota is exceeded within a window only by the success of a call that
\* overlapped another one (the counter or the window changed between its
\* budget check and its own increment), and such an interleaving exists
\* (C18_Witness): more than dailyLimit calls sent and answered 2xx in one window.
C18_OverQuotaNeedsOverlap ==
    [][\A c \in Callers :
          (Answered(c) /\ call'[c].st = "ok" /\ succeeded' > dailyLimit)
             => ~call[c].alone]_vars

\* C18 witness: both handlers passed the budget check at dailyLimit - 1, both
\* were answered 2xx, and the window holds more successes than the quota.
C18_Witness ==
    /\ succeeded > dailyLimit
    /\ requestCount > dailyLimit
    /\ now - lastResetTime <= DayMs
    /\ \A c \in Callers : call[c].st = "ok"

\* C19: the answer to a Gateway call changes the counter by exactly +1 when it
\* is 2xx and leaves the counter unchanged otherwise (429, another non-2xx, a
\* transport error), and never changes the window start; the counter equals
\* the number of successful calls of the window, and a call that overlapped
\* no other (sequential calls) never takes the counter beyond the quota.
C19_CounterCountsSuccesses ==
    /\ [](requestCount = succeeded)
    /\ [][\A c \in Callers :
            Answered(c) =>
               /\ requestCount' = IF call'[c].st = "ok" THEN requestCount + 1
                                                        ELSE requestCount
               /\ lastResetTime' = lastResetTime
               /\ call[c].alone => requestCount' <= dailyLimit]_vars

\* C19 witness: in one window a call has succeeded and a later one was
\* answered 429 by the provider; the counter still counts the one success.
C19_Witness ==
    /\ requestCount = 1
    /\ succeeded = 1
    /\ lastResetTime = 0
    /\ \E c \in Callers : call[c].st = "http429"

----------------------------------------------------------------------------
(***************************************************************************)
(* Claims about the favorites relation (SpecFav)                           *)
(***************************************************************************)

\* C3: two sequential toggles of one pair (u, r) that start from 'no row',
\* with no other request on the pair overlapping them, answer isFavorited =
\* true and then isFavorited = false and leave no row for (u, r); after the
\* first alone the pair has its one row; and no step of a toggle changes the
\* rows of another pair.
C3_ToggleTwice ==
    /\ [](\A p \in Pairs :
            run[p] # Void =>
               /\ Len(run[p]) <= 2
               /\ Len(run[p]) >= 1 => run[p][1] = "favorited"
               /\ (Len(run[p]) = 1 /\ \A s \in FavSlots : favReq[s].pc = "idle")
                     => favorites[p] = 1
               /\ Len(run[p]) = 2 => (run[p][2] = "unfavorited" /\ favorites[p] = 0))
    /\ [][\A s \in FavSlots :
            (favReq[s].op = "toggle" /\ favReq'[s] # favReq[s])
               => \A p \in Pairs :
                     p # <<favReq[s].user, favReq[s].recipe>> => favorites'[p] = favorites[p]]_vars

\* C3 witness: A has favorited and unfavorited the external recipe while B's
\* favorite of the same recipe stayed.
C3_Witness ==
    /\ run[<<"A", "spoon_7">>] = <<"favorited", "unfavorited">>
    /\ favorites[<<"A", "spoon_7">>] = 0
    /\ favorites[<<"B", "spoon_7">>] = 1

\* C4: in every reachable state the favorites relation holds at most one row
\* per (user, recipe id) pair.
C4_AtMostOneRow == \A p \in Pairs : favorites[p] <= 1

\* C4 witness: two toggles of one pair both found no row; one has inserted,
\* the other is still about to insert.
C4_Witness ==
    \E s \in FavSlots, o \in FavSlots :
        /\ s # o
        /\ favReq[s].pc = "checked" /\ favReq[s].op = "toggle" /\ ~favReq[s].existing
        /\ favReq[o].pc = "idle" /\ favReq[o].resp = "favorited"
        /\ favorites[<<favReq[s].user, favReq[s].recipe>>] = 1
        /\ run[<<favReq[s].user, favReq[s].recipe>>] = Void

\* C16: a request of add-favorite or toggle that goes on to insert a row for
\* a (user, recipe) pair that already has one (it passed the pre-check before
\* another request inserted the row) ends with the Conflict outcome, HTTP 409.
C16_DuplicateIsConflict ==
    [][\A s \in FavSlots :
          (/\ favReq[s].pc = "checked" /\ favReq[s].op \in {"add", "toggle"}
           /\ ~favReq[s].existing
           /\ favorites[<<favReq[s].user, favReq[s].recipe>>] >= 1
           /\ favReq'[s].pc = "idle")
              => favReq'[s].resp = "conflict409"]_vars

----------------------------------------------------------------------------
(***************************************************************************)
(* Claims about the categorizer (SpecCat)                                  *)
(***************************************************************************)

\* the groups, by position, that have a keyword contained in the lower-cased name
MatchingGroups(name) ==
    {i \in 1..Len(KeywordGroups) :
        \E w \in KeywordGroups[i].words : includes(toLowerCase(name), w)}

\* the category the claim gives a name: that of the earliest matching group
\* in the order dairy, meat, produce, bakery, frozen, beverages; else pantry
ExpectedCategory(name) ==
    IF MatchingGroups(name) = {} THEN "pantry"
    ELSE KeywordGroups[CHOOSE i \in MatchingGroups(name) :
                          \A j \in MatchingGroups(name) : i <= j].category

\* C7: the categorizer returns the category of the first keyword group, in
\* the order dairy, meat, produce, bakery, frozen, beverages, that matches the
\* lower-cased name, and pantry when none matches; "whole milk" gives dairy,
\* "chicken breast" meat, "frozen peas" frozen, "paper towels" pantry.
C7_Categorizer ==
    catResult # "none" =>
        /\ catResult = ExpectedCategory(catName)
        /\ catName = "whole milk" => catResult = "dairy"
        /\ catName = "chicken breast" => catResult = "meat"
        /\ catName = "frozen peas" => catResult = "frozen"
        /\ catName = "paper towels" => catResult = "pantry"

\* C7 witness: a name that matches several groups (dairy by "Butter", meat
\* by "chicken") has been given the earliest one.
C7_Witness ==
    /\ catName = "Butter chicken"
    /\ Cardinality(MatchingGroups(catName)) = 2
    /\ catResult = "dairy"

----------------------------------------------------------------------------
(***************************************************************************)
(* Claims about the generated grocery list (SpecGrocery)                   *)
(***************************************************************************)

\* the POST persisted a list generated from the meal plan
Generated == grocResp.status = 201 /\ grocResp.fromPlan /\ Len(groceryLists) = 1

GeneratedItems == groceryLists[1].ingredients

\* ingredient names of the loaded recipes, lower-cased, the empty one aside
LoadedKeys ==
    UNION { {toLowerCase(recipes[grocLoaded[n]].ingredients[k].name) :
                k \in 1..Len(recipes[grocLoaded[n]].ingredients)} :
            n \in 1..Len(grocLoaded) } \ {""}

\* number of ingredients of recipe r whose lower-cased name is key
OccurrencesIn(r, key) ==
    Cardinality({k \in 1..Len(recipes[r].ingredients) :
                    toLowerCase(recipes[r].ingredients[k].name) = key})

\* number of entries of the source list src that are recipe r
CountIn(src, r) == Cardinality({k \in 1..Len(src) : src[k] = r})

\* position of recipe r in the load order
LoadIndex(r) == CHOOSE n \in 1..Len(grocLoaded) : grocLoaded[n] = r

\* C5: in a list generated from a meal plan no two items have the same name
\* after lower-casing and trimming (so "Onion" of one recipe and "onion " of
\* another are one item with a source list of length 2).
C5_UniqueByNormalizedName ==
    Generated =>
        \A i, j \in 1..Len(GeneratedItems) :
            i # j => trim(toLowerCase(GeneratedItems[i].name))
                        # trim(toLowerCase(GeneratedItems[j].name))

\* the loaded recipes, in load order, that list an ingredient named key
RecipesWith(key) ==
    LET Lists(r) == OccurrencesIn(r, key) > 0
    IN  SelectSeq(grocLoaded, Lists)

\* what C6 says of every generated list but the source lists
C6_Frame ==
    /\ {grocLoaded[n] : n \in 1..Len(grocLoaded)}
          = planRecipeIds(mealPlans[groceryLists[1].mealPlanId].meals) \cap DOMAIN recipes
    /\ {toLowerCase(GeneratedItems[i].name) : i \in 1..Len(GeneratedItems)} = LoadedKeys
    /\ \A i, j \in 1..Len(GeneratedItems) :
          i # j => toLowerCase(GeneratedItems[i].name) # toLowerCase(GeneratedItems[j].name)
    /\ \A i \in 1..Len(GeneratedItems) : GeneratedItems[i].checked = FALSE
    /\ groceryLists[1].status = "active"

\* C6 as stated: a generated list has one item per distinct ingredient name
\* (names compared lower-cased), the source list of an item is the ordered
\* list of the plan's loaded recipes that contain the ingredient, every item
\* is unchecked and the list is active.
C6_Original ==
    Generated =>
        /\ C6_Frame
        /\ \A i \in 1..Len(GeneratedItems) :
              GeneratedItems[i].recipeSources
                 = RecipesWith(toLowerCase(GeneratedItems[i].name))

\* C6 amended: as above, but the source list of an item has one entry per
\* occurrence of the name in the loaded recipes, in load order: a recipe that
\* lists the ingredient twice is in the source list twice.
C6_SourcePerOccurrence ==
    Generated =>
        /\ C6_Frame
        /\ \A i \in 1..Len(GeneratedItems) :
              LET src == GeneratedItems[i].recipeSources
                  key == toLowerCase(GeneratedItems[i].name)
              IN  /\ \A k \in 1..Len(src) : \E n \in 1..Len(grocLoaded) : src[k] = grocLoaded[n]
                  /\ \A n \in 1..Len(grocLoaded) :
                        CountIn(src, grocLoaded[n]) = OccurrencesIn(grocLoaded[n], key)
                  /\ \A k, l \in 1..Len(src) :
                        k < l => LoadIndex(src[k]) <= LoadIndex(src[l])

\* C6 witness: the plan's slots reference R1 (flour, onion) and R2 (onion,
\* eggs), the store returned R1 then R2, and the list is flour [R1],
\* onion [R1, R2], eggs [R2], all unchecked, status active.
C6_Witness ==
    /\ Generated
    /\ grocLoaded = <<"R1", "R2">>
    /\ Len(GeneratedItems) = 3
    /\ GeneratedItems[1].name = "flour" /\ GeneratedItems[1].recipeSources = <<"R1">>
    /\ GeneratedItems[2].name = "onion" /\ GeneratedItems[2].recipeSources = <<"R1", "R2">>
    /\ GeneratedItems[3].name = "eggs" /\ GeneratedItems[3].recipeSources = <<"R2">>
    /\ \A i \in 1..3 : GeneratedItems[i].checked = FALSE
    /\ groceryLists[1].status = "active"

\* the first ingredient, in load order, whose lower-cased name is key
FirstOccurrence(key) ==
    LET n == CHOOSE n \in 1..Len(grocLoaded) :
                /\ OccurrencesIn(grocLoaded[n], key) > 0
                /\ \A l \in 1..(n - 1) : OccurrencesIn(grocLoaded[l], key) = 0
        ings == recipes[grocLoaded[n]].ingredients
        k == CHOOSE k \in 1..Len(ings) :
                /\ toLowerCase(ings[k].name) = key
                /\ \A l \in 1..(k - 1) : toLowerCase(ings[l].name) # key
    IN  ings[k]

\* number of ingredients of the loaded recipes whose lower-cased name is key
Occurrences(key) ==
    LET RECURSIVE Sum(_)
        Sum(n) == IF n = 0 THEN 0 ELSE OccurrencesIn(grocLoaded[n], key) + Sum(n - 1)
    IN  Sum(Len(grocLoaded))

----------------------------------------------------------------------------
(***************************************************************************)
(* Claims about unified search (SpecSearch)                                *)
(***************************************************************************)

\* the ids of the recipes of the answer
Returned == {search.resp.recipes[i].id : i \in 1..Len(search.resp.recipes)}

\* A's published private recipes
PrivateOfA ==
    {r \in DOMAIN recipes : /\ recipes[r].userId = "A"
                            /\ recipes[r].visibility = "private"
                            /\ recipes[r].status = "published"}

\* the published recipes caller may see that match the query
MatchingVisible(caller, query) ==
    {r \in DOMAIN recipes :
        /\ recipes[r].status = "published"
        /\ \/ recipes[r].visibility \in {"public", "family"}
           \/ recipes[r].userId = caller
        /\ \/ query = ""
           \/ \E col \in {recipes[r].title, recipes[r].description, recipes[r].cuisine} :
                 includes(toLowerCase(col), toLowerCase(query))}

\* C8: a published private recipe of A is in no answer of unified search (mixed,
\* local-only or external mode) to an anonymous caller or to a caller other
\* than A; it is in the mixed answer to A when it matches the query and the
\* matching visible local recipes fit in the local share min(6, limit), and in
\* the first local-only page to A when they fit in the page.
C8_PrivateRecipe ==
    search.pc = "done" =>
        \A r \in PrivateOfA :
            /\ search.caller # "A" => r \notin Returned
            /\ ( /\ search.caller = "A"
                 /\ search.params.source = "all"
                 /\ r \in MatchingVisible("A", search.params.query)
                 /\ Cardinality(MatchingVisible("A", search.params.query))
                       <= Min(LocalShare, search.params.limit) )
               => search.resp.status = 200 /\ r \in Returned
            /\ ( /\ search.caller = "A"
                 /\ search.params.source = "user"
                 /\ search.params.offset = 0
                 /\ r \in MatchingVisible("A", search.params.query)
                 /\ Cardinality(MatchingVisible("A", search.params.query))
                       <= search.params.limit )
               => search.resp.status = 200 /\ r \in Returned

\* C8 witness: A searched "ONION" in mixed mode with a page of 7; the answer
\* holds her private recipe, B's matching recipe and an external recipe.
C8_Witness ==
    /\ search.pc = "done"
    /\ search.caller = "A"
    /\ search.params.source = "all"
    /\ search.params.query = "ONION"
    /\ "s1" \in PrivateOfA
    /\ {"s1", "s2", "spoon_7"} \subseteq Returned

\* C29: a recipe of the store with visibility family is in an answer of
\* unified search only when the caller is its owner or a member of the
\* recipe's family group; never for an anonymous caller or a caller outside
\* that group.
C29_FamilyOnlyToGroup ==
    search.pc = "done" =>
        \A r \in Returned \cap DOMAIN recipes :
            recipes[r].visibility = "family"
                => \/ search.caller = recipes[r].userId
                   \/ <<recipes[r].familyGroupId, search.caller>> \in members

\* what became of the Gateway call of the search: refused by the budget
\* check, answered with an error by the provider, or lost in transport
GatewayFailed ==
    call["h1"].st \in {"rateLimited", "http429", "http404", "httpError", "transportError"}

\* C30: a mixed search whose Gateway call failed (budget exhausted, provider
\* error, transport error) is answered successfully with the local results
\* alone: no external item, stats.spoonacularRecipes = 0.
C30_MixedSurvivesGatewayFailure ==
    (search.pc = "done" /\ search.params.source = "all" /\ GatewayFailed) =>
        /\ search.resp.status = 200
        /\ search.resp.spoonacularRecipes = 0
        /\ search.resp.localRecipes = Len(search.local)
        /\ Returned = {search.local[k].id : k \in 1..Len(search.local)}
        /\ Len(search.resp.recipes) = Len(search.local)

\* C30 witness: a mixed search of a page of 7 was refused by the budget check
\* and answered 200 with its local results only.
C30_Witness ==
    /\ search.pc = "done"
    /\ search.params.source = "all"
    /\ search.params.limit = LocalShare + 1
    /\ call["h1"].st = "rateLimited"
    /\ search.resp.status = 200
    /\ search.resp.localRecipes >= 1
    /\ search.resp.spoonacularRecipes = 0
    /\ Returned \subseteq DOMAIN recipes

\* C21: mixed-source search with page size n takes at most min(6, n) recipes
\* of the local store and at most n - min(6, n) of the Gateway; when that
\* external share is 0 (n <= 6) the request is answered without a Gateway
\* call and the budget counter is unchanged; the page has at most n items.
C21_MixedShares ==
    /\ []((search.pc = "done" /\ search.params.source = "all") =>
            /\ Len(search.local) <= Min(LocalShare, search.params.limit)
            /\ search.resp.localRecipes = Len(search.local)
            /\ search.resp.spoonacularRecipes
                   <= search.params.limit - Min(LocalShare, search.params.limit)
            /\ Len(search.resp.recipes) <= search.params.limit
            /\ search.params.limit <= LocalShare => call = [c \in Callers |-> NoCall])
    /\ [][(search.pc = "idle" /\ search'.params.source = "all"
             /\ search'.params.limit <= LocalShare)
            => (search'.pc = "done" /\ UNCHANGED gatewayVars)]_vars

\* C21 witness: a mixed page of 7 over a store with 7 matching recipes holds
\* the 6 of the local share and the one recipe asked of the Gateway.
C21_Witness ==
    /\ search.pc = "done"
    /\ search.params.source = "all"
    /\ search.params.limit = LocalShare + 1
    /\ Cardinality(MatchingVisible(search.caller, search.params.query)) > LocalShare
    /\ search.resp.localRecipes = LocalShare
    /\ search.resp.spoonacularRecipes = 1
    /\ Len(search.resp.recipes) = LocalShare + 1

----------------------------------------------------------------------------
(***************************************************************************)
(* Claims about collection assembly (SpecCollection)                       *)
(***************************************************************************)

Assembled == {coll.assembled[k].id : k \in 1..Len(coll.assembled)}

OwnedPublished ==
    {r \in DOMAIN recipes : recipes[r].userId = coll.user /\ recipes[r].status = "published"}

\* the favorites of the caller that are rows of recipes and not her own
ResolvedLocal ==
    {r \in DOMAIN recipes : hasFavorite(favorites, coll.user, r)} \ OwnedPublished

\* the external favorites of the caller
ExternalFavorites ==
    {id \in CollFavIds : hasFavorite(favorites, coll.user, id) /\ isNumericId(id)}

\* the external favorites whose fetch was tried, failed, succeeded
Attempted == {coll.ids[k] : k \in 1..Len(coll.outcomes)}
Failed == {coll.ids[k] : k \in {j \in 1..Len(coll.outcomes) : coll.outcomes[j] # "ok"}}
Fetched == Attempted \ Failed

\* C9 as stated: whatever fetches fail, the request answers 200 and the
\* collection holds every owned published recipe, every resolved local
\* favorite and every external favorite but the failed ones: exactly the
\* failed items are missing.
C9_Original ==
    coll.pc = "done" =>
        /\ coll.resp.status = 200
        /\ Assembled = OwnedPublished \cup ResolvedLocal \cup (ExternalFavorites \ Failed)

\* C9 amended: whatever fetches fail, the request answers 200; the fetches
\* tried are those of the caller's first min(n, 5) external favorites; the
\* collection holds every owned published recipe, every resolved local
\* favorite and every external favorite whose fetch succeeded, so of the
\* favorites tried exactly the failed ones are missing (the favorites after
\* the fifth are missing too); the answer is the requested page of it.
C9_FailuresIsolated ==
    coll.pc = "done" =>
        /\ coll.resp.status = 200
        /\ Len(coll.outcomes) = Min(Cardinality(ExternalFavorites), FetchCap)
        /\ Attempted \subseteq ExternalFavorites
        /\ Cardinality(Attempted) = Len(coll.outcomes)
        /\ Assembled = OwnedPublished \cup ResolvedLocal \cup Fetched
        /\ Len(coll.assembled) = Cardinality(Assembled)
        /\ coll.resp.total = Len(coll.assembled)
        /\ coll.resp.recipes
              = slice(coll.assembled, coll.offset, coll.offset + coll.limit)

\* C9 witness: five fetches were tried, the budget ran out part-way: the
\* first two were answered, the others refused; the collection holds the two,
\* the caller's own recipe and her local favorite.
C9_Witness ==
    /\ coll.pc = "done"
    /\ coll.resp.status = 200
    /\ coll.outcomes = <<"ok", "ok", "rateLimited", "rateLimited", "rateLimited">>
    /\ Assembled = {"c1", "c3", "7", "8"}

\* C10: one collection request calls getRecipeInformation at most 5 times,
\* whatever the number of external favorites and the page asked for, never
\* has more than one of these calls in flight, and the budget counter grows
\* by at most 5 while it is served.
C10_AtMostFiveFetches ==
    coll.pc # "idle" =>
        /\ coll.calls <= 5
        /\ coll.inFlight <= 1
        /\ requestCount - coll.before <= 5

\* C10 witness: the caller has six external favorites, the request made five
\* fetches, all answered, and the counter grew by 5.
C10_Witness ==
    /\ coll.pc = "done"
    /\ Cardinality(ExternalFavorites) = 6
    /\ coll.calls = 5
    /\ requestCount = coll.before + 5
    /\ coll.offset = 1

\* recipe_favorites.created_at of the favorite of recipe id: the rows of
\* CollFavOrder were created one after the other, the first one last
favoritedAt(id) == 0 - (CHOOSE k \in 1..Len(CollFavOrder) : CollFavOrder[k] = id)

\* the timestamp the collection is to be ordered by: the last-modified time
\* of an owned recipe, the time it was favorited of a favorite
CollectionTime(item) ==
    IF item.id \in OwnedPublished THEN recipes[item.id].updatedAt
    ELSE favoritedAt(item.id)

\* C22: the assembled collection is ordered by non-increasing timestamp (the
\* last-modified time of an owned recipe, the favorited time of a favorite,
\* local or external); the page is exactly the elements offset ..
\* offset+limit-1 of it, and hasMore is true exactly when offset + limit < total.
C22_SortedByFavoritedTime ==
    coll.pc = "done" =>
        /\ \A i, j \in 1..Len(coll.assembled) :
              i < j => CollectionTime(coll.assembled[i]) >= CollectionTime(coll.assembled[j])
        /\ coll.resp.recipes
              = SubSeq(coll.assembled, coll.offset + 1,
                       Min(coll.offset + coll.limit, Len(coll.assembled)))
        /\ coll.resp.total = Len(coll.assembled)
        /\ coll.resp.hasMore = (coll.offset + coll.limit < coll.resp.total)

\* the id unified search gives the provider's recipe 7, and the provider's id
SearchId == "spoon_" \o NumToString(7)

\* C23: while B has a favorite stored under the id unified search returned
\* an external recipe with, a unified search by B marks that recipe
\* isFavorited = true and B's collection contains it (unless its fetch
\* failed); while B has no such favorite (before favoriting, after
\* unfavoriting with the same id), search marks it isFavorited = false and
\* the collection does not contain it.
C23_FavoriteByReturnedId ==
    [][/\ (search.pc # "done" /\ search'.pc = "done" /\ search'.resp.status = 200)
            => \A i \in 1..Len(search'.resp.recipes) :
                  search'.resp.recipes[i].id = SearchId
                     => (search'.resp.recipes[i].isFavorited
                            <=> existingFavorite(favorites, search'.caller, SearchId))
       /\ (coll.pc = "idle" /\ coll'.pc = "done")
            => LET listed == \E k \in 1..Len(coll'.assembled) :
                                coll'.assembled[k].id \in {SearchId, NumToString(7)}
                   failed == \E k \in 1..Len(coll'.outcomes) : coll'.outcomes[k] # "ok"
               IN  IF existingFavorite(favorites, coll'.user, SearchId)
                   THEN listed \/ failed
                   ELSE ~listed]_vars

\* C25: no recipe identity is twice in the assembled collection: a recipe the
\* caller both owns and favorited is listed once, as owned; every item has
\* isFavorited = true; stats.totalCount = stats.userRecipes
\* + stats.favoritedRecipes = the number of items before paging.
C25_ListedOnce ==
    coll.pc = "done" =>
        /\ \A i, j \in 1..Len(coll.assembled) :
              i # j => coll.assembled[i].id # coll.assembled[j].id
        /\ \A r \in OwnedPublished :
              hasFavorite(favorites, coll.user, r)
                 => /\ \E k \in 1..Len(coll.owned) : coll.owned[k].id = r
                    /\ \A k \in 1..Len(coll.local) : coll.local[k].id # r
        /\ \A i \in 1..Len(coll.assembled) : coll.assembled[i].isFavorited
        /\ coll.resp.totalCount = coll.resp.userRecipes + coll.resp.favoritedRecipes
        /\ coll.resp.totalCount = Len(coll.assembled)

\* C28: the collection returned to a caller never holds a recipe of the store
\* with visibility private that another user owns, whatever add-favorite,
\* toggle-favorite and visibility updates came before.
C28_NoForeignPrivate ==
    coll.pc = "done" =>
        \A i \in 1..Len(coll.assembled) :
            LET item == coll.assembled[i]
            IN  (item.sourceType = "user" /\ item.visibility = "private")
                    => item.userId = coll.user

\* C13: a POST by a member of the requested group with a mealPlanId that no
\* meal plan has is answered NotFound (404), one with a meal plan of another
\* group is answered ValidationFailed (400); the two answers differ, and no
\* grocery list is stored in either case.
C13_MissingPlanIsNotFound ==
    (grocResp.status \notin {0, 403} /\ grocResp.mealPlanId # "") =>
        LET mp == grocResp.mealPlanId
        IN  /\ mp \notin DOMAIN mealPlans
               => grocResp.status = 404 /\ groceryLists = <<>>
            /\ (mp \in DOMAIN mealPlans
                  /\ mealPlans[mp].familyGroupId # grocResp.familyGroupId)
               => grocResp.status = 400 /\ groceryLists = <<>>

----------------------------------------------------------------------------
(***************************************************************************)
(* Claims about grocery list updates (SpecGroceryUpdate)                   *)
(***************************************************************************)

\* the checked flags of the items of a stored list
CheckedFlags(row) ==
    <<[k \in 1..Len(row.ingredients) |-> row.ingredients[k].checked],
      [k \in 1..Len(row.additionalItems) |-> row.additionalItems[k].checked]>>

\* C11: the status of a grocery list only moves forward: in no step a
\* completed list becomes active, an archived list never changes status, and
\* a step into completed sets the completion timestamp.
C11_StatusForwardOnly ==
    [][\A i \in 1..Len(groceryLists) :
          /\ groceryLists[i].status = "completed" => groceryLists'[i].status # "active"
          /\ groceryLists[i].status = "archived" => groceryLists'[i].status = "archived"
          /\ (groceryLists[i].status # "completed" /\ groceryLists'[i].status = "completed")
                => groceryLists'[i].completedAt # NullDate]_vars

\* C12: a step changes the checked flag of an item only of an active list; an
\* update that carries items for a completed or archived list is rejected
\* and leaves the stored items unchanged.
C12_CheckedOnlyWhileActive ==
    [][/\ \A i \in 1..Len(groceryLists) :
             CheckedFlags(groceryLists'[i]) # CheckedFlags(groceryLists[i])
                => groceryLists[i].status = "active"
       /\ \A s \in PutSlots :
             ( /\ putReq[s].pc = "update" /\ putReq'[s].pc = "done"
               /\ putReq[s].body.ingredients # <<>> \/ putReq[s].body.additionalItems # <<>>
               /\ groceryLists[putReq[s].id].status # "active" )
             => /\ putReq'[s].status # 200
                /\ groceryLists'[putReq[s].id].ingredients
                      = groceryLists[putReq[s].id].ingredients
                /\ groceryLists'[putReq[s].id].additionalItems
                      = groceryLists[putReq[s].id].additionalItems]_vars

\* the step in which the update of slot s is written
Written(s) == putReq[s].pc = "update" /\ putReq'[s].pc = "done"

\* C26: when two members toggle the checked flags of two different items of
\* one active list at the same time, both toggles take effect: the write of
\* A's toggle of the first ingredient (or of the extra) leaves the flag of the
\* second ingredient as it is, and the write of B's toggle of the second
\* ingredient leaves the flags of the first ingredient and the extra as they
\* are.
C26_NoLostToggle ==
    [][/\ Written("p1")
            => groceryLists'[1].ingredients[2].checked = groceryLists[1].ingredients[2].checked
       /\ Written("p2")
            => /\ groceryLists'[1].ingredients[1].checked
                     = groceryLists[1].ingredients[1].checked
               /\ groceryLists'[1].additionalItems[1].checked
                     = groceryLists[1].additionalItems[1].checked]_vars

\* C27: in every reachable state a grocery list has a completion timestamp
\* exactly when its status is completed or archived; a new or active list has
\* none, also after any sequence of status updates.
C27_CompletedAtIffDone ==
    \A i \in 1..Len(groceryLists) :
        groceryLists[i].completedAt # NullDate
            <=> groceryLists[i].status \in {"completed", "archived"}

----------------------------------------------------------------------------
(***************************************************************************)
(* Claims about recipes by id (SpecRecipe)                                 *)
(***************************************************************************)

\* an id of a recipe of the provider: its numeric id, or the id unified
\* search returns it under
ExternalIdentity(id) ==
    isNumericId(id) \/ (Len(id) > 6 /\ SubSeq(id, 1, 6) = "spoon_")

\* C14: an external-origin recipe never has an owning user and is never
\* editable or deletable: every recipe a finished operation hands out with
\* origin external (fetch-by-id, the Gateway's normalization) carries no
\* owning user, and every update or delete whose target is an external recipe
\* identity is rejected and leaves the recipe store as it was.
C14_ExternalNeverOwned ==
    recipeReq.pc = "done" =>
        /\ \A k \in 1..Len(recipeReq.recipe) :
              recipeReq.recipe[k].sourceType = "spoonacular"
                  => recipeReq.recipe[k].userId = "null"
        /\ (recipeReq.op \in {"put", "delete"} /\ ExternalIdentity(recipeReq.id))
              => (recipeReq.status >= 400 /\ ~recipeReq.changed)

\* C15: a fetch of an external recipe by id whose Gateway call failed
\* upstream (the provider answered 429 or another non-2xx status that is not
\* its own 404, or the transport failed) never ends with the outcome used for
\* a recipe that does not exist (HTTP 404).
C15_UpstreamFailureIsNot404 ==
    (recipeReq.pc = "done" /\ recipeReq.op = "get"
        /\ recipeReq.upstream \in {"http429", "httpError", "transportError"})
        => recipeReq.status # 404

\* C20: a fetch of an external recipe by id ends with HTTP 429 both when the
\* local budget check refused the Gateway call and when the provider
\* answered the call with 429.
C20_BothRateLimitsAnswer429 ==
    (recipeReq.pc = "done" /\ recipeReq.op = "get"
        /\ recipeReq.upstream \in {"rateLimited", "http429"})
        => recipeReq.status = 429

----------------------------------------------------------------------------
(***************************************************************************)
(* Claims about meal plans (SpecPlan)                                      *)
(***************************************************************************)

\* the active rows of meal_plans of one family group and week-start date
ActivePlans(g, w) ==
    {i \in 1..Len(mealPlans) :
        mealPlans[i].familyGroupId = g /\ mealPlans[i].weekStartDate = w
            /\ mealPlans[i].isActive}

\* C17: after any sequence and interleaving of meal-plan create and update
\* requests, each (family group, week-start date) has at most one active
\* meal plan.
C17_OneActivePlanPerWeek ==
    \A g \in PlanGroups, w \in PlanWeeks : Cardinality(ActivePlans(g, w)) <= 1

====
